---- MODULE Spec2Model ----
(***************************************************************************)
(* Model of the ChainFusion bridges: the BRC-20 bridge's EVM event         *)
(* collector and task scheduler, the rune bridge's deposit and withdraw    *)
(* pipelines and the BTC bridge's mint pipeline; the BRC-20 bridge's       *)
(* configuration, the gates of the rune deposit and the codec of the NFT   *)
(* mint order as functions called on their own.                            *)
(*                                                                         *)
(* Every canister is single-threaded and cooperative: a handler runs       *)
(* until its next await, where its request is in flight and any other      *)
(* handler may run.  Each action below is one such uninterrupted segment.  *)
(***************************************************************************)
EXTENDS Integers, Sequences, FiniteSets, TLC

VARIABLES
    brc20_state,    \* STATE of the BRC-20 bridge: [config, bft_config, signer, evm_params]
    brc20_tasks,    \* SCHEDULER of the BRC-20 bridge: the pending tasks, in id order
    evm_logs,       \* the EVM chain: the bridge contract's logs, one per block
    evm_safe,       \* number of the last finalised ("Safe") block
    journal,        \* history: per log, the tasks created, failed and completed
    rune_state,     \* STATE of the rune bridge: [mint_orders, ledger, evm_params]
    NONCE,          \* the rune bridge's static NONCE
    rune_calls,     \* the deposit and withdraw calls of the rune bridge
    rune_journal,   \* history: the mint orders signed, the transactions sent
    btc_state,      \* STATE of the BTC bridge: [mint_orders, evm_params, tasks]
    btc_calls,      \* the btc_to_erc20 calls of the BTC bridge
    ckbtc_minter,   \* the ckBTC minter: the UTXOs it has reported
    btc_journal,    \* history: the mint orders signed, transferred, stored, sent
    fn_call,        \* a function called on its own: its name and arguments
    fn_ret,         \* what the function returned, once it has
    orders,         \* a MintOrders store: [mint_orders_map]
    NONCES_COUNTER, \* the minter canister's static NONCES_COUNTER
    nonces,         \* history: the nonces next_nonce returned since the reset
    cells,          \* the RefCell<State> of each canister: its borrow flag
    futures,        \* the operations suspended at an await, and the borrows they hold
    borrow_panic,   \* a borrow of a State has panicked
    burn_requests   \* BurnRequestStore of the NFT bridge: request id -> request

collector_vars == <<brc20_state, brc20_tasks, evm_logs, evm_safe, journal>>
rune_vars == <<rune_state, NONCE, rune_calls, rune_journal>>
btc_vars == <<btc_state, btc_calls, ckbtc_minter, btc_journal>>
fn_vars == <<fn_call, fn_ret>>
minter_vars == <<orders, NONCES_COUNTER, nonces>>
cell_vars == <<cells, futures, borrow_panic>>
nft_vars == <<burn_requests>>

vars == <<collector_vars, rune_vars, btc_vars, fn_vars, minter_vars, cell_vars, nft_vars>>

---------------------------------------------------------------------------
(* Bounds of the model.                                                    *)

\* logs the bridge contract emits in a run
MaxLogs == 2
\* tasks the pending-tasks store holds
MaxTasks == 2
\* logs the bridge contract emits in a run of the fair specification
MaxFairLogs == 1
\* mint orders the rune bridge signs in a run
MaxOrders == 2
\* UTXOs the ckBTC minter reports in a run
MaxBtcUtxos == 2
\* the height of the Bitcoin chain's tip
TipHeight == 3
\* the largest block height given to the confirmation gate
MaxHeight == 3
\* the largest satoshi value and the largest fee given to the amount gate
MaxValue == 3
---------------------------------------------------------------------------
(* Values.                                                                 *)

None == [some |-> FALSE]
Some(x) == [some |-> TRUE, v |-> x]

Max(a, b) == IF a >= b THEN a ELSE b
Min(a, b) == IF a <= b THEN a ELSE b

\* Events of the BFT bridge contract as BridgeEvent::from_log sees them: a
\* Burnt event (its recipient_id valid UTF-8 or not), a Minted event,
\* or a log that is neither.
LogKinds == {"Burnt", "BurntBadRecipient", "Minted", "Other"}

LogIds == 1..MaxLogs

---------------------------------------------------------------------------
(* BRC-20 bridge: the state and its configuration.                         *)

\* the principals that call the bridge, and the management canister
Principals == {"admin", "user", "management_canister"}

\* A string is the sequence of its characters.
Https == <<"h", "t", "t", "p", "s">>
HttpsUrl == Https \o <<":", "/", "/", "i">>

\* str::starts_with
starts_with(s, prefix) ==
    Len(s) >= Len(prefix) /\ SubSeq(s, 1, Len(prefix)) = prefix

\* Brc20BridgeConfig::default and BftBridgeConfig::default
Brc20BridgeConfig_default ==
    [admin |-> "management_canister", indexer_url |-> <<>>,
     signing_strategy |-> "Local0"]

BftBridgeConfig_default ==
    [erc20_chain_id |-> 0, token_symbol |-> [i \in 1..16 |-> 0]]

\* SigningStrategy::make_signer
make_signer(signing_strategy) == [strategy |-> signing_strategy]

\* State::default, given what the signer's stable cell holds: a cell that
\* holds a signer keeps it, an empty one takes the default signer.
State_default(signer_cell) ==
    [config |-> Brc20BridgeConfig_default,
     bft_config |-> BftBridgeConfig_default,
     signer |-> IF signer_cell.some THEN signer_cell.v ELSE make_signer("Local1"),
     evm_params |-> None]

\* Brc20BridgeConfig::validate_indexer_url: Ok or the error.
validate_indexer_url(config) ==
    IF config.indexer_url = <<>> THEN "Indexer URL is empty"
    ELSE IF ~starts_with(config.indexer_url, Https) THEN "Indexer URL must be HTTPS"
    ELSE "Ok"

\* State::configure: the state it leaves, and whether it panicked.
configure(state, config) ==
    IF validate_indexer_url(config) # "Ok"
    THEN [panic |-> TRUE, state |-> state]
    ELSE [panic |-> FALSE,
          state |-> [state EXCEPT !.signer = make_signer(config.signing_strategy),
                                  !.config = config]]

\* State::configure_bft
configure_bft(state, bft_config) == [state EXCEPT !.bft_config = bft_config]

\* State::check_admin, with every caller the admin.
check_admin_anyone(state, caller) == TRUE

\* State::check_admin: FALSE where it panics with "access denied".
check_admin(state, caller) == caller = state.config.admin

\* State::set_token_symbol: the result and the state it leaves.
set_token_symbol(state, brc20_tick) ==
    LET bytes == brc20_tick IN
    IF Len(bytes) = 16
    THEN [result |-> "Ok", state |-> [state EXCEPT !.bft_config.token_symbol = bytes]]
    ELSE IF Len(bytes) < 16
    THEN [result |-> "Ok",
          state |-> [state EXCEPT !.bft_config.token_symbol =
                        [i \in 1..16 |-> IF i <= Len(bytes) THEN bytes[i] ELSE @[i]]]]
    ELSE [result |-> "SetTokenSymbol", state |-> state]

\* The config the bridge is installed with.
InitConfig ==
    [admin |-> "admin", indexer_url |-> HttpsUrl, signing_strategy |-> "Installed"]

---------------------------------------------------------------------------
(* BRC-20 bridge: the calls on the state.                                  *)

\* the characters of the indexer URLs
Chars == {"h", "t", "p", "s", ":", "/", "i"}

\* The indexer URLs given to configure: "http://i", and the beginnings of
\* "https://i" with one character changed.
IndexerUrls ==
    {<<"h", "t", "t", "p", ":", "/", "/", "i">>}
    \cup {SubSeq(url, 1, k) :
             url \in {[HttpsUrl EXCEPT ![i] = ch] : i \in DOMAIN HttpsUrl, ch \in Chars},
             k \in 0..Len(HttpsUrl)}

\* The calls of State::configure, which init makes on State::default.
ConfigureCalls ==
    [fn : {"configure"}, state : {State_default(None)},
     config : [admin : {"admin"}, indexer_url : IndexerUrls,
               signing_strategy : {"Installed"}]]

\* The tickers given to set_token_symbol: up to 17 bytes, each 'A' or
\* each 'B'.
Ticks == {[i \in 1..n |-> ch] : n \in 0..(16 + 1), ch \in {65, 66}}

\* The state of the installed bridge with the token symbol b.
WithSymbol(b) ==
    [configure(State_default(None), InitConfig).state EXCEPT
        !.bft_config.token_symbol = b]

\* The calls of set_token_symbol: on the state that a call of
\* set_token_symbol on the installed bridge has left.
SetTokenSymbolCalls ==
    [fn : {"set_token_symbol"},
     state : {set_token_symbol(WithSymbol(BftBridgeConfig_default.token_symbol), t).state :
                 t \in Ticks},
     brc20_tick : Ticks]

Configure ==
    /\ fn_call.fn = "configure"
    /\ ~fn_ret.some
    /\ fn_ret' = Some(configure(fn_call.state, fn_call.config))
    /\ UNCHANGED <<fn_call, collector_vars, rune_vars, btc_vars, minter_vars, cell_vars, nft_vars>>

SetTokenSymbol ==
    /\ fn_call.fn = "set_token_symbol"
    /\ ~fn_ret.some
    /\ fn_ret' = Some(set_token_symbol(fn_call.state, fn_call.brc20_tick))
    /\ UNCHANGED <<fn_call, collector_vars, rune_vars, btc_vars, minter_vars, cell_vars, nft_vars>>

NextBrc20State == Configure \/ SetTokenSymbol

\* The BFT bridge configs the callers give.
BftBridgeConfigs ==
    [erc20_chain_id : {1, 2},
     token_symbol : {WithSymbol(t \o [i \in 1..(16 - Len(t)) |-> 0]).bft_config.token_symbol :
                        t \in {t \in Ticks : Len(t) <= 2}}]

\* admin_configure_bft_bridge called by `caller`; fn_call and fn_ret keep
\* the last call and its reply.  A panic leaves the state as it was.
AdminConfigureBftBridge(caller, config) ==
    /\ fn_call' = [fn |-> "admin_configure_bft_bridge", caller |-> caller,
                   config |-> config]
    /\ IF check_admin(brc20_state, caller)
       THEN /\ brc20_state' = configure_bft(brc20_state, config)
            /\ fn_ret' = Some("Ok")
       ELSE /\ brc20_state' = brc20_state
            /\ fn_ret' = Some("access denied")
    /\ UNCHANGED <<brc20_tasks, evm_logs, evm_safe, journal>>
    /\ UNCHANGED <<rune_vars, btc_vars, minter_vars, cell_vars, nft_vars>>

---------------------------------------------------------------------------
(* BRC-20 bridge: tasks and their options.                                 *)

EVM_INFO_INITIALIZATION_RETRIES == 5

\* The failure counter of a task saturates above the largest policy the
\* model exhausts.
FailCap == EVM_INFO_INITIALIZATION_RETRIES + 1

\* with_max_retries_policy(u32::MAX): 4294967295 retries, which the
\* saturating failure counter never exceeds.
U32_MAX == FailCap

\* A ScheduledTask: payload (kind, and the log entry it was made from),
\* retry policy (None: RetryPolicy::Infinite), status, and what its future
\* holds across an await (params: the EvmParams read).
NewTask(kind, log, max_retries) ==
    [kind |-> kind, log |-> log, max_retries |-> max_retries,
     backoff |-> [policy |-> "Default"],
     status |-> "Waiting", failures |-> 0, params |-> None]

\* TaskOptions::with_backoff_policy
with_backoff_policy(t, backoff) == [t EXCEPT !.backoff = backoff]

\* BackoffPolicy::Fixed { secs }
Fixed(secs) == [policy |-> "Fixed", secs |-> secs]

TASK_RETRY_DELAY_SECS == 5

EVM_EVENTS_COLLECTING_DELAY == 1

NoLog == [log |-> 0, block_number |-> None]

EVM_INFO_INITIALIZATION_RETRY_DELAY == 2

EVM_INFO_INITIALIZATION_RETRY_MULTIPLIER == 2

\* BackoffPolicy::Exponential { secs, multiplier }
Exponential(secs, multiplier) ==
    [policy |-> "Exponential", secs |-> secs, multiplier |-> multiplier]

\* init_evm_info_task with RetryPolicy::Infinite.
init_evm_info_task_infinite ==
    with_backoff_policy(NewTask("InitEvmState", NoLog, None),
                        Exponential(EVM_INFO_INITIALIZATION_RETRY_DELAY,
                                    EVM_INFO_INITIALIZATION_RETRY_MULTIPLIER))

init_evm_info_task ==
    with_backoff_policy(NewTask("InitEvmState", NoLog, Some(EVM_INFO_INITIALIZATION_RETRIES)),
                        Exponential(EVM_INFO_INITIALIZATION_RETRY_DELAY,
                                    EVM_INFO_INITIALIZATION_RETRY_MULTIPLIER))

collect_evm_events_task ==
    with_backoff_policy(NewTask("CollectEvmEvents", NoLog, None),
                        Fixed(EVM_EVENTS_COLLECTING_DELAY))

\* The options of task_by_log, with the retries given.
task_options(t) == with_backoff_policy(t, Fixed(TASK_RETRY_DELAY_SECS))

\* task_by_log with the retries of the InitEvmState task.
task_by_log_few_retries(entry) ==
    LET kind == evm_logs[entry.log] IN
    IF kind \in {"Burnt", "BurntBadRecipient"}
    THEN <<task_options(NewTask("InscribeBrc20", entry, Some(EVM_INFO_INITIALIZATION_RETRIES)))>>
    ELSE IF kind = "Minted"
    THEN <<task_options(NewTask("RemoveMintOrder", entry, Some(EVM_INFO_INITIALIZATION_RETRIES)))>>
    ELSE <<>>

\* task_by_log with the default retry policy: no retry.
task_by_log_no_retry(entry) ==
    LET kind == evm_logs[entry.log] IN
    IF kind \in {"Burnt", "BurntBadRecipient"}
    THEN <<task_options(NewTask("InscribeBrc20", entry, Some(0)))>>
    ELSE IF kind = "Minted"
    THEN <<task_options(NewTask("RemoveMintOrder", entry, Some(0)))>>
    ELSE <<>>

\* BridgeEvent::from_log, then the match of task_by_log: zero or one task.
task_by_log(entry) ==
    LET kind == evm_logs[entry.log] IN
    IF kind \in {"Burnt", "BurntBadRecipient"}
    THEN <<task_options(NewTask("InscribeBrc20", entry, Some(U32_MAX)))>>
    ELSE IF kind = "Minted"
    THEN <<task_options(NewTask("RemoveMintOrder", entry, Some(U32_MAX)))>>
    ELSE <<>>

\* String::from_utf8(recipient_id) of the burn event the task carries.
recipient_is_utf8(t) == evm_logs[t.log.log] = "Burnt"

Terminal == {"Completed", "Failed"}

\* The scheduler's handling of Err(TaskExecutionFailed): reschedule within
\* the retry policy, Failed when the retries are exhausted.
\* Failures are counted for the policies the counter can exhaust.
OnFailure(t) ==
    LET counted == t.max_retries.some /\ t.max_retries.v < FailCap
        f == IF counted THEN t.failures + 1 ELSE t.failures
    IN
    IF counted /\ f > t.max_retries.v
    THEN [t EXCEPT !.status = "Failed", !.failures = f, !.params = None]
    ELSE [t EXCEPT !.status = "Waiting", !.failures = f, !.params = None]

OnSuccess(t) == [t EXCEPT !.status = "Completed", !.params = None]

\* Task::execute up to its first await, for a task the scheduler starts.
Start(t) ==
    IF t.status # "Waiting" THEN t
    ELSE CASE t.kind = "InitEvmState" -> [t EXCEPT !.status = "AwaitInit"]
           [] t.kind = "CollectEvmEvents" ->
                IF brc20_state.evm_params.some
                THEN [t EXCEPT !.status = "AwaitLogs", !.params = brc20_state.evm_params]
                ELSE OnSuccess(t)
           [] t.kind = "RemoveMintOrder" -> OnSuccess(t)
           [] t.kind = "MintErc20" -> [t EXCEPT !.status = "AwaitMint"]
           [] t.kind = "InscribeBrc20" ->
                IF recipient_is_utf8(t)
                THEN [t EXCEPT !.status = "AwaitInscribe"]
                ELSE OnFailure(t)

Pending(tasks) == SelectSeq(tasks, LAMBDA t : t.status \notin Terminal)

Replace(tasks, i, t) == [tasks EXCEPT ![i] = t]

\* Scheduler::run: every waiting task is started.
run(tasks) == Pending([i \in DOMAIN tasks |-> Start(tasks[i])])

RECURSIVE Flatten(_)
Flatten(ss) == IF ss = <<>> THEN <<>> ELSE Head(ss) \o Flatten(Tail(ss))

\* logs.iter().take_while(|l| l.block_number.is_some())
RECURSIVE take_while_some(_)
take_while_some(logs) ==
    IF logs = <<>> \/ ~Head(logs).block_number.some THEN <<>>
    ELSE <<Head(logs)>> \o take_while_some(Tail(logs))

RECURSIVE Reverse(_)
Reverse(seq) == IF seq = <<>> THEN <<>> ELSE Reverse(Tail(seq)) \o <<Head(seq)>>

\* The tasks of the logs, the task of the last log first.
tasks_of_logs_reversed(logs) == Reverse(Flatten([i \in DOMAIN logs |-> task_by_log(logs[i])]))

\* logs.into_iter().filter_map(Self::task_by_log).collect(): the tasks a
\* collector round appends for the logs it received.
tasks_of_logs(logs) == Flatten([i \in DOMAIN logs |-> task_by_log(logs[i])])

\* EvmParams after a round that received logs.
params_after_logs(params, current, logs) ==
    LET finalized == take_while_some(logs) IN
    IF finalized = <<>> THEN current
    ELSE Some([params.v EXCEPT !.next_block =
                 finalized[Len(finalized)].block_number.v + 1])

---------------------------------------------------------------------------
(* The EVM.                                                                *)

\* eth_getLogs(from, Safe) answered by a node whose Safe block is `safe`:
\* the logs of the finalised blocks from..safe, in block order.
FinalizedLogs(from, safe) ==
    [k \in 1..Max(0, safe - from + 1) |->
        [log |-> from + k - 1, block_number |-> Some(from + k - 1)]]

\* The logs of blocks that are not finalised yet come without block number.
PendingLogs ==
    [k \in 1..(Len(evm_logs) - evm_safe) |-> [log |-> evm_safe + k, block_number |-> None]]

\* What collect_logs may return for `from`: the view of a node that is at
\* the Safe block or behind it, with or without the unfinalised tail.
Replies(from) ==
    {FinalizedLogs(from, safe) : safe \in 0..evm_safe}
    \cup {FinalizedLogs(from, evm_safe) \o PendingLogs}

\* What collect_logs may return for `from` when the node is not taken to
\* list the finalised logs first: logs of the blocks from `from` on, each
\* once, in any order, a block number only on logs of finalised blocks.
AnyReplies(from) ==
    LET blocks == from..Len(evm_logs)
        lists == UNION {[1..n -> [log : blocks, numbered : BOOLEAN]] :
                           n \in 0..Cardinality(blocks)}
    IN {[k \in DOMAIN l |->
            [log |-> l[k].log,
             block_number |-> IF l[k].numbered THEN Some(l[k].log) ELSE None]] :
        l \in {x \in lists :
                  /\ \A j, k \in DOMAIN x : j # k => x[j].log # x[k].log
                  /\ \A k \in DOMAIN x : x[k].numbered => x[k].log <= evm_safe}}

EvmEmit(max) ==
    /\ Len(evm_logs) < max
    /\ \E kind \in LogKinds : evm_logs' = Append(evm_logs, kind)
    /\ UNCHANGED <<brc20_state, brc20_tasks, evm_safe, journal>>
    /\ UNCHANGED <<rune_vars, btc_vars, fn_vars, minter_vars, cell_vars, nft_vars>>

EvmFinalise ==
    /\ evm_safe < Len(evm_logs)
    /\ evm_safe' = evm_safe + 1
    /\ UNCHANGED <<brc20_state, brc20_tasks, evm_logs, journal>>
    /\ UNCHANGED <<rune_vars, btc_vars, fn_vars, minter_vars, cell_vars, nft_vars>>

---------------------------------------------------------------------------
(* BRC-20 bridge: the timer and the tasks.                                 *)

\* The 1 s timer of set_timers: append CollectEvmEvents, then run().  A
\* tick that finds the store at its bound appends nothing.
Tick ==
    /\ brc20_tasks' = run(IF Len(brc20_tasks) < MaxTasks
                          THEN Append(brc20_tasks, collect_evm_events_task)
                          ELSE brc20_tasks)
    /\ journal' = [journal EXCEPT !.failed = @ \cup
          {brc20_tasks[i].log.log : i \in {k \in DOMAIN brc20_tasks :
              /\ brc20_tasks[k].kind = "InscribeBrc20"
              /\ brc20_tasks[k].status = "Waiting"
              /\ ~recipient_is_utf8(brc20_tasks[k])}}]
    /\ UNCHANGED <<brc20_state, evm_logs, evm_safe>>
    /\ UNCHANGED <<rune_vars, btc_vars, fn_vars, minter_vars, cell_vars, nft_vars>>

\* What EvmParams::query returns.
queried_params == Some([nonce |-> 0, next_block |-> evm_safe + 1])

\* init_evm_state after its awaits: EvmParams::query answered.
InitEvmStateOk(i) ==
    /\ brc20_tasks[i].status = "AwaitInit"
    /\ brc20_state' = [brc20_state EXCEPT !.evm_params = queried_params]
    /\ brc20_tasks' = Pending(Replace(brc20_tasks, i, OnSuccess(brc20_tasks[i])))
    /\ UNCHANGED <<evm_logs, evm_safe, journal>>
    /\ UNCHANGED <<rune_vars, btc_vars, fn_vars, minter_vars, cell_vars, nft_vars>>

InitEvmStateErr(i) ==
    /\ brc20_tasks[i].status = "AwaitInit"
    /\ brc20_tasks' = Pending(Replace(brc20_tasks, i, OnFailure(brc20_tasks[i])))
    /\ UNCHANGED <<brc20_state, evm_logs, evm_safe, journal>>
    /\ UNCHANGED <<rune_vars, btc_vars, fn_vars, minter_vars, cell_vars, nft_vars>>

\* collect_logs fails: collect_evm_events returns the error.
CollectEvmEventsErr(i) ==
    /\ brc20_tasks[i].status = "AwaitLogs"
    /\ brc20_tasks' = Pending(Replace(brc20_tasks, i, OnFailure(brc20_tasks[i])))
    /\ UNCHANGED <<brc20_state, evm_logs, evm_safe, journal>>
    /\ UNCHANGED <<rune_vars, btc_vars, fn_vars, minter_vars, cell_vars, nft_vars>>

\* The journal's count of the InscribeBrc20 tasks made from each log:
\* "none", "one" or "many".
created_after(created, new) ==
    [l \in LogIds |->
        LET n == Cardinality({k \in DOMAIN new :
                    new[k].kind = "InscribeBrc20" /\ new[k].log.log = l})
        IN IF n = 0 THEN created[l]
           ELSE IF n = 1 /\ created[l] = "none" THEN "one"
           ELSE "many"]

\* collect_evm_events from the reply `logs` of collect_logs to its return.
CollectEvmEvents(i, logs) ==
    LET t == brc20_tasks[i]
        new == tasks_of_logs(logs)
    IN
    /\ t.status = "AwaitLogs"
    /\ Len(brc20_tasks) - 1 + Len(new) <= MaxTasks
    /\ IF logs = <<>>
       THEN /\ brc20_tasks' = Pending(Replace(brc20_tasks, i, OnSuccess(t)))
            /\ UNCHANGED <<brc20_state, journal>>
       ELSE /\ brc20_state' = [brc20_state EXCEPT
                  !.evm_params = params_after_logs(t.params, @, logs)]
            /\ brc20_tasks' = Pending(Replace(brc20_tasks, i, OnSuccess(t))) \o new
            /\ journal' = [journal EXCEPT !.created = created_after(@, new)]
    /\ UNCHANGED <<evm_logs, evm_safe>>
    /\ UNCHANGED <<rune_vars, btc_vars, fn_vars, minter_vars, cell_vars, nft_vars>>

\* The cached EVM nonce of the model goes up to MaxEvmNonce.
MaxEvmNonce == 1

\* A mint transaction of the BRC-20 bridge has been accepted by the EVM:
\* send_mint_order increments the cached nonce.
Brc20SendMintOrder ==
    /\ brc20_state.evm_params.some
    /\ brc20_state.evm_params.v.nonce < MaxEvmNonce
    /\ brc20_state' = [brc20_state EXCEPT !.evm_params.v.nonce = @ + 1]
    /\ UNCHANGED <<brc20_tasks, evm_logs, evm_safe, journal>>
    /\ UNCHANGED <<rune_vars, btc_vars, fn_vars, minter_vars, cell_vars, nft_vars>>

\* erc20_to_brc20 of an InscribeBrc20 task returns Ok.
InscribeBrc20Ok(i) ==
    /\ brc20_tasks[i].status = "AwaitInscribe"
    /\ brc20_tasks' = Pending(Replace(brc20_tasks, i, OnSuccess(brc20_tasks[i])))
    /\ journal' = [journal EXCEPT !.completed = @ \cup {brc20_tasks[i].log.log}]
    /\ UNCHANGED <<brc20_state, evm_logs, evm_safe>>
    /\ UNCHANGED <<rune_vars, btc_vars, fn_vars, minter_vars, cell_vars, nft_vars>>

\* erc20_to_brc20 returns an error.
InscribeBrc20Err(i) ==
    /\ brc20_tasks[i].status = "AwaitInscribe"
    /\ brc20_tasks' = Pending(Replace(brc20_tasks, i, OnFailure(brc20_tasks[i])))
    /\ journal' = [journal EXCEPT !.failed = @ \cup {brc20_tasks[i].log.log}]
    /\ UNCHANGED <<brc20_state, evm_logs, evm_safe>>
    /\ UNCHANGED <<rune_vars, btc_vars, fn_vars, minter_vars, cell_vars, nft_vars>>

\* The retry policies a MintErc20 task is scheduled with: none is excluded.
MintErc20Policies == {None, Some(0), Some(U32_MAX)}

\* The bridge schedules a MintErc20 task for a deposit.
ScheduleMintErc20(max_retries) ==
    /\ Len(brc20_tasks) < MaxTasks
    /\ brc20_tasks' = Append(brc20_tasks, NewTask("MintErc20", NoLog, max_retries))
    /\ UNCHANGED <<brc20_state, evm_logs, evm_safe, journal>>
    /\ UNCHANGED <<rune_vars, btc_vars, fn_vars, minter_vars, cell_vars, nft_vars>>

\* The MintErc20 arm of execute after its await: the result of
\* brc20_to_erc20 is logged and Ok(()) is returned.
MintErc20_execute(result) == "Ok"

\* What the scheduler does with a task whose execute returned `returned`.
OnReturn(t, returned) == IF returned = "Ok" THEN OnSuccess(t) ELSE OnFailure(t)

\* brc20_to_erc20 of a MintErc20 task returns Ok.
Brc20MintErc20Ok(i) ==
    /\ brc20_tasks[i].status = "AwaitMint"
    /\ brc20_tasks' = Pending(Replace(brc20_tasks, i,
                          OnReturn(brc20_tasks[i], MintErc20_execute("Ok"))))
    /\ UNCHANGED <<brc20_state, evm_logs, evm_safe, journal>>
    /\ UNCHANGED <<rune_vars, btc_vars, fn_vars, minter_vars, cell_vars, nft_vars>>

\* brc20_to_erc20 of a MintErc20 task returns an error.
Brc20MintErc20Err(i) ==
    /\ brc20_tasks[i].status = "AwaitMint"
    /\ brc20_tasks' = Pending(Replace(brc20_tasks, i,
                          OnReturn(brc20_tasks[i], MintErc20_execute("Err"))))
    /\ UNCHANGED <<brc20_state, evm_logs, evm_safe, journal>>
    /\ UNCHANGED <<rune_vars, btc_vars, fn_vars, minter_vars, cell_vars, nft_vars>>

\* An upgrade of the canister, with no call in flight: the heap is lost,
\* STATE is State::default again at its first use, the stable memory (the
\* signer's cell, the pending tasks) is kept, and post_upgrade sets the
\* timers.
PostUpgrade ==
    /\ \A i \in DOMAIN brc20_tasks : brc20_tasks[i].status = "Waiting"
    /\ brc20_state' = State_default(Some(brc20_state.signer))
    /\ UNCHANGED <<brc20_tasks, evm_logs, evm_safe, journal>>
    /\ UNCHANGED <<rune_vars, btc_vars, fn_vars, minter_vars, cell_vars, nft_vars>>

---------------------------------------------------------------------------
(* Rune bridge: the Bitcoin host, the indexer and the values they return.  *)

\* the callers' EVM addresses
EthAddresses == {"alice", "bob"}

\* The calls in flight at one time: a call takes the first free slot.
Callers == {"c1", "c2"}

free(calls, c) == calls[c].pc = "done" /\ (c = "c1" \/ calls["c1"].pc # "done")

\* the runes the indexer knows
Runes == {"r1", "r2"}

\* the outputs of the transaction that pays to a deposit address
Vouts == {0}

\* The outpoints locked at the deposit address of an EVM address.
Outpoints == [addr : EthAddresses, vout : Vouts]

\* state.min_confirmations() and state.deposit_fee()
MinConfirmations == 2
DepositFee == 2


\* The Utxo values the Bitcoin host may report for an outpoint.
Utxos(o) ==
    [outpoint : {o}, height : {TipHeight - 1, TipHeight},
     value : {DepositFee - 1, DepositFee}]

\* What bitcoin_get_utxos may answer for the deposit address of `a`: one
\* Utxo for each outpoint of some of its outpoints.
GetUtxosResponses(a) ==
    LET mine == {o \in Outpoints : o.addr = a}
        reported == UNION {Utxos(o) : o \in mine}
    IN [utxos : {S \in SUBSET reported :
                    \A u, v \in S : u.outpoint = v.outpoint => u = v},
        tip_height : {TipHeight}]

\* What the indexer may report for the UTXOs: the runes, in the order in
\* which the HashMap of rune amounts is iterated.
RuneLists ==
    {s \in UNION {[1..k -> Runes] : k \in 0..Cardinality(Runes)} :
        \A i, j \in DOMAIN s : i # j => s[i] # s[j]}

get_derivation_path_ic(eth_address) == [account |-> eth_address]

RECURSIVE SumValues(_)
SumValues(utxos) ==
    IF utxos = {} THEN 0
    ELSE LET u == CHOOSE u \in utxos : TRUE IN u.value + SumValues(utxos \ {u})

MinOf(S) == CHOOSE x \in S : \A y \in S : x <= y

\* UtxoLedger: the StoredUtxo entries, keyed by outpoint.
ledger_deposit(ledger, utxos, derivation_path) ==
    {e \in ledger : e.outpoint \notin utxos}
    \cup {[outpoint |-> o, derivation_path |-> derivation_path] : o \in utxos}

load_all(ledger) == ledger

\* get_utxos without the filter: the response as the host gave it.
filter_out_no_utxos(ledger, response) == response

filter_out_used_utxos(ledger, response) ==
    [response EXCEPT !.utxos =
        {utxo \in @ : ~\E v \in load_all(ledger) : v.outpoint = utxo.outpoint}]

\* A u32 as its two 16-bit halves.
U16 == 2^16
u32(n) == [hi |-> n \div U16, lo |-> n % U16]
u32_lt(a, b) == a.hi < b.hi \/ (a.hi = b.hi /\ a.lo < b.lo)
u32_min(S) == CHOOSE x \in S : \A y \in S : x = y \/ u32_lt(x, y)

\* a - b and a + b on u32 in a build without overflow checks
wrapping_sub(a, b) ==
    LET borrow == IF a.lo < b.lo THEN 1 ELSE 0
    IN [hi |-> (a.hi - b.hi - borrow) % U16, lo |-> (a.lo - b.lo) % U16]

wrapping_add(a, b) ==
    LET lo == a.lo + b.lo
    IN [hi |-> (a.hi + b.hi + lo \div U16) % U16, lo |-> lo % U16]

\* a - b and a + b on u32: with overflow checks the operation panics
\* (None) where the result is not a u32, without them it wraps.
u32_sub(overflow_checks, a, b) ==
    IF overflow_checks /\ u32_lt(a, b) THEN None ELSE Some(wrapping_sub(a, b))

u32_add(overflow_checks, a, b) ==
    LET sum == wrapping_add(a, b)
    IN IF overflow_checks /\ u32_lt(sum, a) THEN None ELSE Some(sum)

\* utxo_info.tip_height - utxo.height + 1
utxo_confirmations(overflow_checks, tip_height, height) ==
    LET difference == u32_sub(overflow_checks, u32(tip_height), u32(height))
    IN IF ~difference.some THEN None
       ELSE u32_add(overflow_checks, difference.v, u32(1))

\* The confirmation gate, in a build with or without overflow checks:
\* Ok, Err(Pending) or a panic.
validate_utxo_confirmations(overflow_checks, min_confirmations, utxo_info) ==
    LET confirmations ==
            {utxo_confirmations(overflow_checks, utxo_info.tip_height, utxo.height) :
                utxo \in utxo_info.utxos}
        utxo_min_confirmations ==
            IF confirmations = {} THEN u32(0)
            ELSE u32_min({c.v : c \in confirmations})
    IN IF None \in confirmations THEN [kind |-> "panic"]
       ELSE IF u32_lt(utxo_min_confirmations, u32(min_confirmations))
       THEN [kind |-> "Pending", min_confirmations |-> u32(min_confirmations),
             current_confirmations |-> utxo_min_confirmations]
       ELSE [kind |-> "Ok"]

\* The amount gate: Ok or Err(NotEnoughBtc).
validate_utxo_btc_amount(deposit_fee, utxo_info) ==
    LET received_amount == SumValues(utxo_info.utxos)
        min_amount == deposit_fee
    IN IF received_amount < min_amount
       THEN [kind |-> "NotEnoughBtc", received |-> received_amount, minimum |-> min_amount]
       ELSE [kind |-> "Ok"]

\* MintOrdersStore::push: insert under (sender, nonce), replacing what the
\* key held.
push(mint_orders, sender, nonce, order) ==
    {e \in mint_orders : ~(e.sender = sender /\ e.nonce = nonce)}
    \cup {[sender |-> sender, nonce |-> nonce, order |-> order]}

\* NONCE.load: the counter is read and left as it is.
load(n) == [prev |-> n, next |-> n]

\* NONCE.fetch_add(1, Relaxed): the value before, the value after.
fetch_add(n) == [prev |-> n, next |-> n + 1]

NoCall ==
    [op |-> "none", addr |-> "none", pc |-> "done", utxos |-> {},
     runes |-> <<>>, nonce |-> 0, first |-> TRUE, evm_nonce |-> 0,
     results |-> <<>>, outcome |-> "none"]

\* A call returns: its locals are dropped, its result stays.
Return(call, outcome) ==
    [NoCall EXCEPT !.op = call.op, !.outcome = outcome]

\* create_mint_order: the MintOrder that is encoded and signed.
MintOrder(call) ==
    [sender |-> [address |-> call.addr, chain_id |-> "btc_chain_id"],
     src_token |-> Head(call.runes),
     recipient |-> call.addr,
     nonce |-> call.nonce]

---------------------------------------------------------------------------
(* Rune bridge: deposit.                                                   *)

\* The EVM parameters are queried once the canister runs.
RuneInitEvmState ==
    /\ ~rune_state.evm_params.some
    /\ rune_state' = [rune_state EXCEPT !.evm_params = Some([nonce |-> 0])]
    /\ UNCHANGED <<NONCE, rune_calls, rune_journal>>
    /\ UNCHANGED <<collector_vars, btc_vars, fn_vars, minter_vars, cell_vars, nft_vars>>

\* deposit is called: up to the await of bitcoin_get_utxos.
Deposit(c, eth_address) ==
    /\ free(rune_calls, c)
    /\ rune_calls' = [rune_calls EXCEPT ![c] =
          [NoCall EXCEPT !.op = "deposit", !.addr = eth_address,
                         !.pc = "bitcoin_get_utxos"]]
    /\ UNCHANGED <<rune_state, NONCE, rune_journal>>
    /\ UNCHANGED <<collector_vars, btc_vars, fn_vars, minter_vars, cell_vars, nft_vars>>

\* bitcoin_get_utxos, get_rune_amounts, fill_rune_infos or
\* create_mint_order fails: deposit returns the error.
DepositErr(c) ==
    LET call == rune_calls[c] IN
    /\ call.op = "deposit"
    /\ call.pc \in {"bitcoin_get_utxos", "get_rune_amounts", "encode_and_sign"}
    /\ rune_calls' = [rune_calls EXCEPT ![c] =
          Return(call, IF call.pc = "encode_and_sign" THEN "Sign" ELSE "Unavailable")]
    /\ UNCHANGED <<rune_state, NONCE, rune_journal>>
    /\ UNCHANGED <<collector_vars, btc_vars, fn_vars, minter_vars, cell_vars, nft_vars>>

\* From the answer of bitcoin_get_utxos to the await of get_rune_amounts.
DepositUtxos(c, answer) ==
    LET call == rune_calls[c]
        utxo_response == filter_out_used_utxos(rune_state.ledger, answer)
    IN
    /\ call.op = "deposit"
    /\ call.pc = "bitcoin_get_utxos"
    /\ \E overflow_checks \in BOOLEAN :
        LET confirmations ==
                validate_utxo_confirmations(overflow_checks, MinConfirmations, utxo_response)
            btc_amount == validate_utxo_btc_amount(DepositFee, utxo_response)
        IN rune_calls' = [rune_calls EXCEPT ![c] =
              IF utxo_response.utxos = {} THEN Return(call, "NotingToDeposit")
              ELSE IF confirmations.kind = "panic" THEN Return(call, "Panicked")
              ELSE IF confirmations.kind # "Ok" THEN Return(call, "Pending")
              ELSE IF btc_amount.kind # "Ok" THEN Return(call, "NotEnoughBtc")
              ELSE [call EXCEPT !.pc = "get_rune_amounts",
                                !.utxos = {utxo.outpoint : utxo \in utxo_response.utxos}]]
    /\ UNCHANGED <<rune_state, NONCE, rune_journal>>
    /\ UNCHANGED <<collector_vars, btc_vars, fn_vars, minter_vars, cell_vars, nft_vars>>

\* The head of the loop over rune_info_amounts: with a rune left, NONCE is
\* fetched and create_mint_order runs up to encode_and_sign; with none
\* left, deposit returns Ok(results).  A run signs MaxOrders orders at most.
NextRune(c, call) ==
    IF call.runes = <<>>
    THEN /\ rune_calls' = [rune_calls EXCEPT ![c] = Return(call, "Ok")]
         /\ UNCHANGED NONCE
    ELSE /\ NONCE < MaxOrders
         /\ rune_calls' = [rune_calls EXCEPT ![c] =
               [call EXCEPT !.pc = "encode_and_sign",
                            !.nonce = fetch_add(NONCE).prev]]
         /\ NONCE' = fetch_add(NONCE).next

\* From the answers of the indexer to the first encode_and_sign.
DepositRuneAmounts(c, rune_info_amounts) ==
    LET call == rune_calls[c] IN
    /\ call.op = "deposit"
    /\ call.pc = "get_rune_amounts"
    /\ IF rune_info_amounts = <<>>
       THEN /\ rune_calls' = [rune_calls EXCEPT ![c] = Return(call, "NoRunesToDeposit")]
            /\ UNCHANGED NONCE
       ELSE NextRune(c, [call EXCEPT !.runes = rune_info_amounts])
    /\ UNCHANGED <<rune_state, rune_journal>>
    /\ UNCHANGED <<collector_vars, btc_vars, fn_vars, minter_vars, cell_vars, nft_vars>>

\* The mint order is signed: it is pushed, the UTXOs are recorded in the
\* ledger, send_mint_order runs up to the await of get_address.
DepositSigned(c) ==
    LET call == rune_calls[c]
        sender == [address |-> call.addr, chain_id |-> "erc20_chain_id"]
    IN
    /\ call.op = "deposit"
    /\ call.pc = "encode_and_sign"
    /\ rune_state' = [rune_state EXCEPT
          !.mint_orders = push(@, sender, call.nonce, MintOrder(call)),
          !.ledger = ledger_deposit(@, call.utxos, get_derivation_path_ic(call.addr))]
    /\ rune_journal' = [rune_journal EXCEPT !.orders = @ \o
          <<[order |-> MintOrder(call), first |-> call.first, utxos |-> call.utxos]>>]
    /\ rune_calls' = [rune_calls EXCEPT ![c] =
          [call EXCEPT !.pc = "get_address", !.first = FALSE]]
    /\ UNCHANGED NONCE
    /\ UNCHANGED <<collector_vars, btc_vars, fn_vars, minter_vars, cell_vars, nft_vars>>

\* The result of send_mint_order is pushed, the loop goes on.
Pushed(call, result) ==
    [call EXCEPT !.results = Append(@, result), !.runes = Tail(@),
                 !.nonce = 0, !.evm_nonce = 0]

\* send_mint_order fails at get_address, sign_transaction or
\* send_raw_transaction: the status is Signed.
SendMintOrderErr(c) ==
    LET call == rune_calls[c] IN
    /\ call.op = "deposit"
    /\ call.pc \in {"get_address", "sign_transaction", "send_raw_transaction"}
    /\ NextRune(c, Pushed(call, "Signed"))
    /\ UNCHANGED <<rune_state, rune_journal>>
    /\ UNCHANGED <<collector_vars, btc_vars, fn_vars, minter_vars, cell_vars, nft_vars>>

\* get_address answers: the EVM parameters are read, the transaction is
\* built with their nonce and handed to sign_transaction.
SendMintOrderAddress(c) ==
    LET call == rune_calls[c] IN
    /\ call.op = "deposit"
    /\ call.pc = "get_address"
    /\ IF rune_state.evm_params.some
       THEN /\ rune_calls' = [rune_calls EXCEPT ![c] =
                  [call EXCEPT !.pc = "sign_transaction",
                               !.evm_nonce = rune_state.evm_params.v.nonce]]
            /\ UNCHANGED NONCE
       ELSE NextRune(c, Pushed(call, "Signed"))
    /\ UNCHANGED <<rune_state, rune_journal>>
    /\ UNCHANGED <<collector_vars, btc_vars, fn_vars, minter_vars, cell_vars, nft_vars>>

SendMintOrderSigned(c) ==
    LET call == rune_calls[c] IN
    /\ call.op = "deposit"
    /\ call.pc = "sign_transaction"
    /\ rune_calls' = [rune_calls EXCEPT ![c] = [call EXCEPT !.pc = "send_raw_transaction"]]
    /\ UNCHANGED <<rune_state, NONCE, rune_journal>>
    /\ UNCHANGED <<collector_vars, btc_vars, fn_vars, minter_vars, cell_vars, nft_vars>>

\* send_raw_transaction answers Ok: the cached nonce is incremented, the
\* status is Minted.
SendMintOrderOk(c) ==
    LET call == rune_calls[c] IN
    /\ call.op = "deposit"
    /\ call.pc = "send_raw_transaction"
    /\ rune_state' = [rune_state EXCEPT !.evm_params =
          IF @.some THEN Some([@.v EXCEPT !.nonce = @ + 1]) ELSE @]
    /\ rune_journal' = [rune_journal EXCEPT !.minted = Append(@, call.evm_nonce)]
    /\ NextRune(c, Pushed(call, "Minted"))
    /\ UNCHANGED <<collector_vars, btc_vars, fn_vars, minter_vars, cell_vars, nft_vars>>

---------------------------------------------------------------------------
(* Rune bridge: withdraw.                                                  *)

\* withdraw is called: the ledger is loaded and build_withdraw_transaction
\* runs up to the await of get_fee_rate.  todo!() panics: the call traps.
Withdraw(c) ==
    LET inputs == load_all(rune_state.ledger)
        call == [NoCall EXCEPT !.op = "withdraw"]
    IN
    /\ free(rune_calls, c)
    /\ rune_calls' = [rune_calls EXCEPT ![c] =
          IF inputs = {} THEN Return(call, "NoInputs")
          ELSE IF ~\A i, j \in inputs : i.derivation_path = j.derivation_path
               THEN Return(call, "Panicked")
          ELSE [call EXCEPT !.pc = "get_fee_rate",
                            !.utxos = {i.outpoint : i \in inputs}]]
    /\ UNCHANGED <<rune_state, NONCE, rune_journal>>
    /\ UNCHANGED <<collector_vars, btc_vars, fn_vars, minter_vars, cell_vars, nft_vars>>

\* get_fee_rate, sign_transaction or bitcoin_send_transaction fails.
WithdrawErr(c) ==
    LET call == rune_calls[c] IN
    /\ call.op = "withdraw"
    /\ call.pc \in {"get_fee_rate", "sign_transaction", "bitcoin_send_transaction"}
    /\ rune_calls' = [rune_calls EXCEPT ![c] = Return(call,
          CASE call.pc = "get_fee_rate" -> "FeeRateRequest"
            [] call.pc = "sign_transaction" -> "TransactionSigning"
            [] call.pc = "bitcoin_send_transaction" -> "TransactionSending")]
    /\ UNCHANGED <<rune_state, NONCE, rune_journal>>
    /\ UNCHANGED <<collector_vars, btc_vars, fn_vars, minter_vars, cell_vars, nft_vars>>

\* The fee rate is known: create_edict_transaction builds the transaction
\* (or cannot), sign_transaction is awaited.
WithdrawFeeRate(c, created) ==
    LET call == rune_calls[c] IN
    /\ call.op = "withdraw"
    /\ call.pc = "get_fee_rate"
    /\ rune_calls' = [rune_calls EXCEPT ![c] =
          IF created THEN [call EXCEPT !.pc = "sign_transaction"]
          ELSE Return(call, "TransactionCreation")]
    /\ UNCHANGED <<rune_state, NONCE, rune_journal>>
    /\ UNCHANGED <<collector_vars, btc_vars, fn_vars, minter_vars, cell_vars, nft_vars>>

\* The transaction is signed: send_tx hands it to the Bitcoin adapter.
WithdrawSigned(c) ==
    LET call == rune_calls[c] IN
    /\ call.op = "withdraw"
    /\ call.pc = "sign_transaction"
    /\ rune_calls' = [rune_calls EXCEPT ![c] = [call EXCEPT !.pc = "bitcoin_send_transaction"]]
    /\ UNCHANGED <<rune_state, NONCE, rune_journal>>
    /\ UNCHANGED <<collector_vars, btc_vars, fn_vars, minter_vars, cell_vars, nft_vars>>

\* bitcoin_send_transaction answers Ok: the transaction is broadcast.
WithdrawSent(c) ==
    LET call == rune_calls[c] IN
    /\ call.op = "withdraw"
    /\ call.pc = "bitcoin_send_transaction"
    /\ rune_journal' = [rune_journal EXCEPT !.sent =
          [o \in Outpoints |->
              IF o \notin call.utxos THEN @[o]
              ELSE IF @[o] = "none" THEN "one" ELSE "many"]]
    /\ rune_calls' = [rune_calls EXCEPT ![c] = Return(call, "Ok")]
    /\ UNCHANGED <<rune_state, NONCE>>
    /\ UNCHANGED <<collector_vars, btc_vars, fn_vars, minter_vars, cell_vars, nft_vars>>

\* The deposit pipeline, with every caller.
NextRuneBridge ==
    \/ RuneInitEvmState
    \/ \E c \in Callers : \E a \in EthAddresses : Deposit(c, a)
    \/ \E c \in Callers : DepositErr(c)
    \/ \E c \in Callers :
          \E answer \in GetUtxosResponses(rune_calls[c].addr) : DepositUtxos(c, answer)
    \/ \E c \in Callers : \E runes \in RuneLists : DepositRuneAmounts(c, runes)
    \/ \E c \in Callers : DepositSigned(c)
    \/ \E c \in Callers : SendMintOrderErr(c)
    \/ \E c \in Callers : SendMintOrderAddress(c)
    \/ \E c \in Callers : SendMintOrderSigned(c)
    \/ \E c \in Callers : SendMintOrderOk(c)

\* What bitcoin_get_utxos answers for a deposit address that holds UTXOs.
HeldUtxosResponses(a) == {answer \in GetUtxosResponses(a) : answer.utxos # {}}

\* The deposits of one caller, one after the other, to deposit addresses
\* that hold UTXOs.
NextRuneSequential ==
    \/ RuneInitEvmState
    \/ \E a \in EthAddresses : Deposit("c1", a)
    \/ DepositErr("c1")
    \/ \E answer \in HeldUtxosResponses(rune_calls["c1"].addr) : DepositUtxos("c1", answer)
    \/ \E runes \in RuneLists : DepositRuneAmounts("c1", runes)
    \/ DepositSigned("c1")
    \/ SendMintOrderErr("c1")
    \/ SendMintOrderAddress("c1")
    \/ SendMintOrderSigned("c1")
    \/ SendMintOrderOk("c1")

\* Deposits and withdrawals of one caller.
NextRuneWithdraw ==
    \/ RuneInitEvmState
    \/ \E a \in EthAddresses : Deposit("c1", a)
    \/ DepositErr("c1")
    \/ \E answer \in GetUtxosResponses(rune_calls["c1"].addr) : DepositUtxos("c1", answer)
    \/ \E runes \in RuneLists : DepositRuneAmounts("c1", runes)
    \/ DepositSigned("c1")
    \/ SendMintOrderErr("c1")
    \/ SendMintOrderAddress("c1")
    \/ SendMintOrderSigned("c1")
    \/ SendMintOrderOk("c1")
    \/ Withdraw("c1")
    \/ WithdrawErr("c1")
    \/ \E created \in BOOLEAN : WithdrawFeeRate("c1", created)
    \/ WithdrawSigned("c1")
    \/ WithdrawSent("c1")

---------------------------------------------------------------------------
(* BTC bridge: btc_to_erc20.                                               *)

\* BtcBridgeConfig::default: the fee of a ckBTC ledger transfer
ck_btc_ledger_fee == 10

\* the confirmations the ckBTC minter requires
MIN_CONFIRMATIONS == 12

\* amount - fee with the fee left out
unchecked_amount(amount, fee) == Some(amount)

\* u64::checked_sub
checked_sub(amount, fee) == IF amount >= fee THEN Some(amount - fee) ELSE None

\* The UTXOs the ckBTC minter learns of: two of them are mined in a block.
BtcUtxos == {[outpoint |-> n, height |-> (n + 1) \div 2] : n \in 1..MaxBtcUtxos}

\* The UtxoStatus values update_balance may report for a UTXO.
UtxoStatuses(utxo) ==
    [status : {"Minted"}, utxo : {utxo},
     minted_amount : {ck_btc_ledger_fee - 1, 99998000}]
    \cup [status : {"ValueTooSmall", "Tainted", "Checked"}, utxo : {utxo},
          minted_amount : {0}]

\* What update_balance may answer with Ok: a status for each of some UTXOs
\* that it has not reported before.
UpdateBalanceAnswers(known) ==
    {s \in UNION {[1..k -> UNION {UtxoStatuses(u) : u \in BtcUtxos \ known}] :
                     k \in 0..Cardinality(BtcUtxos \ known)} :
        \A i, j \in DOMAIN s : i # j => s[i].utxo # s[j].utxo}

\* The errors update_balance may answer with: NoNewUtxos without current
\* confirmations, NoNewUtxos with them and the pending UTXOs, or another
\* error.
UpdateBalanceErrors ==
    [kind : {"NoNewUtxos"}, current_confirmations : {None},
     required_confirmations : {MIN_CONFIRMATIONS}, pending_utxos : {None}]
    \cup [kind : {"NoNewUtxos"}, current_confirmations : {Some(1), Some(7)},
          required_confirmations : {MIN_CONFIRMATIONS},
          pending_utxos : {Some({1})}]
    \cup {[kind |-> "TemporarilyUnavailable"]}

\* schedule_mint that appends nothing
schedule_nothing(tasks, eth_address) == tasks

\* schedule_mint: a MintErc20 task for the address is appended.
schedule_mint(tasks, eth_address) == Append(tasks, [MintErc20 |-> eth_address])

NoBtcCall ==
    [addr |-> "none", pc |-> "done", utxos |-> <<>>, evm_nonce |-> 0,
     results |-> <<>>]

\* prepare_mint_order: the MintOrder that is encoded and signed for the
\* UTXO at the head of the list.
BtcMintOrder(call) ==
    [sender |-> [address |-> call.addr, chain_id |-> "btc_chain_id"],
     src_token |-> "ck_btc_ledger",
     recipient |-> call.addr,
     amount |-> checked_sub(Head(call.utxos).minted_amount, ck_btc_ledger_fee).v,
     nonce |-> Head(call.utxos).utxo.height]

\* The result of a UTXO is pushed, the loop goes on.  A result is kept
\* with the UtxoStatus it is the result of.
BtcPushed(call, result) ==
    [call EXCEPT !.results = Append(@, [of |-> Head(call.utxos), result |-> result]),
                 !.utxos = Tail(@), !.evm_nonce = 0]

\* The loop over minted_utxos up to its next await: the statuses that are
\* not Minted and the amounts below the fee give their error at once,
\* mint_erc20 of the next UTXO runs up to encode_and_sign; with no UTXO
\* left, btc_to_erc20 returns the results.
RECURSIVE btc_next_utxo(_)
btc_next_utxo(call) ==
    IF call.utxos = <<>> THEN [call EXCEPT !.pc = "done", !.addr = "none"]
    ELSE LET s == Head(call.utxos) IN
         CASE s.status = "Minted" /\ checked_sub(s.minted_amount, ck_btc_ledger_fee).some ->
                  [call EXCEPT !.pc = "encode_and_sign"]
           [] s.status = "Minted" /\ ~checked_sub(s.minted_amount, ck_btc_ledger_fee).some ->
                  btc_next_utxo(BtcPushed(call, [status |-> "ValueTooSmall"]))
           [] s.status = "ValueTooSmall" ->
                  btc_next_utxo(BtcPushed(call, [status |-> "ValueTooSmall"]))
           [] s.status = "Tainted" -> btc_next_utxo(BtcPushed(call, [status |-> "Tainted"]))
           [] s.status = "Checked" -> btc_next_utxo(BtcPushed(call, [status |-> "CkBtcMinter"]))

\* The EVM parameters are queried once the canister runs.
BtcInitEvmState ==
    /\ ~btc_state.evm_params.some
    /\ btc_state' = [btc_state EXCEPT !.evm_params = Some([nonce |-> 0])]
    /\ UNCHANGED <<btc_calls, ckbtc_minter, btc_journal>>
    /\ UNCHANGED <<collector_vars, rune_vars, fn_vars, minter_vars, cell_vars, nft_vars>>

\* btc_to_erc20 is called: up to the await of update_balance.
BtcToErc20(c, eth_address) ==
    /\ free(btc_calls, c)
    /\ btc_calls' = [btc_calls EXCEPT ![c] =
          [NoBtcCall EXCEPT !.addr = eth_address, !.pc = "update_balance"]]
    /\ UNCHANGED <<btc_state, ckbtc_minter, btc_journal>>
    /\ UNCHANGED <<collector_vars, rune_vars, fn_vars, minter_vars, cell_vars, nft_vars>>

\* update_balance answers with an error: NoNewUtxos without or with current
\* confirmations (then a MintErc20 task is scheduled), or another error.
\* The scheduler holds MaxTasks tasks at most.
UpdateBalanceErr(c, err) ==
    LET call == btc_calls[c]
        scheduled == err.kind = "NoNewUtxos" /\ err.current_confirmations.some
    IN
    /\ call.pc = "update_balance"
    /\ IF scheduled
       THEN /\ Len(btc_state.tasks) < MaxTasks
            /\ btc_state' = [btc_state EXCEPT !.tasks = schedule_mint(@, call.addr)]
       ELSE UNCHANGED btc_state
    /\ btc_calls' = [btc_calls EXCEPT ![c] =
          [NoBtcCall EXCEPT !.results = <<[of |-> [status |-> "none"], result |->
              IF scheduled
              THEN [status |-> "Scheduled",
                    current_confirmations |-> err.current_confirmations.v,
                    required_confirmations |-> err.required_confirmations,
                    pending_utxos |-> err.pending_utxos]
              ELSE IF err.kind = "NoNewUtxos" THEN [status |-> "NothingToMint"]
              ELSE [status |-> "CkBtcMinter", err |-> err]]>>]]
    /\ UNCHANGED <<ckbtc_minter, btc_journal>>
    /\ UNCHANGED <<collector_vars, rune_vars, fn_vars, minter_vars, cell_vars, nft_vars>>

\* update_balance answers Ok(minted_utxos).
UpdateBalanceOk(c, minted_utxos) ==
    LET call == btc_calls[c] IN
    /\ call.pc = "update_balance"
    /\ ckbtc_minter' = ckbtc_minter \cup {minted_utxos[i].utxo : i \in DOMAIN minted_utxos}
    /\ btc_calls' = [btc_calls EXCEPT ![c] =
          btc_next_utxo([call EXCEPT !.utxos = minted_utxos])]
    /\ UNCHANGED <<btc_state, btc_journal>>
    /\ UNCHANGED <<collector_vars, rune_vars, fn_vars, minter_vars, cell_vars, nft_vars>>

\* encode_and_sign or icrc1_transfer fails: mint_erc20 returns the error.
MintErc20Err(c) ==
    LET call == btc_calls[c] IN
    /\ call.pc \in {"encode_and_sign", "icrc1_transfer"}
    /\ btc_calls' = [btc_calls EXCEPT ![c] = btc_next_utxo(BtcPushed(call,
          [status |-> IF call.pc = "encode_and_sign" THEN "Sign" ELSE "CkBtcLedgerTransfer"]))]
    /\ UNCHANGED <<btc_state, ckbtc_minter, btc_journal>>
    /\ UNCHANGED <<collector_vars, rune_vars, fn_vars, minter_vars, cell_vars, nft_vars>>

\* The mint order is signed: the ckBTC is transferred from the subaccount.
MintErc20Signed(c) ==
    LET call == btc_calls[c] IN
    /\ call.pc = "encode_and_sign"
    /\ btc_calls' = [btc_calls EXCEPT ![c] = [call EXCEPT !.pc = "icrc1_transfer"]]
    /\ btc_journal' = [btc_journal EXCEPT !.signed = Append(@,
          [status |-> Head(call.utxos), amount |-> BtcMintOrder(call).amount])]
    /\ UNCHANGED <<btc_state, ckbtc_minter>>
    /\ UNCHANGED <<collector_vars, rune_vars, fn_vars, minter_vars, cell_vars, nft_vars>>

\* The transfer is done: store_mint_order, then send_mint_order up to the
\* await of get_address.
MintErc20Transferred(c) ==
    LET call == btc_calls[c] IN
    /\ call.pc = "icrc1_transfer"
    /\ btc_state' = [btc_state EXCEPT !.mint_orders =
          push(@, BtcMintOrder(call).sender, Head(call.utxos).utxo.height,
               BtcMintOrder(call))]
    /\ btc_journal' = [btc_journal EXCEPT
          !.transferred = Append(@,
              [status |-> Head(call.utxos),
               amount |-> checked_sub(Head(call.utxos).minted_amount, ck_btc_ledger_fee).v]),
          !.stored = Append(@,
              [order |-> BtcMintOrder(call), utxo |-> Head(call.utxos).utxo])]
    /\ btc_calls' = [btc_calls EXCEPT ![c] = [call EXCEPT !.pc = "get_address"]]
    /\ UNCHANGED ckbtc_minter
    /\ UNCHANGED <<collector_vars, rune_vars, fn_vars, minter_vars, cell_vars, nft_vars>>

\* send_mint_order fails at get_address, sign_transaction or
\* send_raw_transaction: the status is Signed.
BtcSendMintOrderErr(c) ==
    LET call == btc_calls[c] IN
    /\ call.pc \in {"get_address", "sign_transaction", "send_raw_transaction"}
    /\ btc_calls' = [btc_calls EXCEPT ![c] = btc_next_utxo(BtcPushed(call, [status |-> "Signed"]))]
    /\ UNCHANGED <<btc_state, ckbtc_minter, btc_journal>>
    /\ UNCHANGED <<collector_vars, rune_vars, fn_vars, minter_vars, cell_vars, nft_vars>>

\* get_address answers: the EVM parameters are read, the transaction is
\* built with their nonce and handed to sign_transaction.
BtcSendMintOrderAddress(c) ==
    LET call == btc_calls[c] IN
    /\ call.pc = "get_address"
    /\ btc_calls' = [btc_calls EXCEPT ![c] =
          IF btc_state.evm_params.some
          THEN [call EXCEPT !.pc = "sign_transaction",
                            !.evm_nonce = btc_state.evm_params.v.nonce]
          ELSE btc_next_utxo(BtcPushed(call, [status |-> "Signed"]))]
    /\ UNCHANGED <<btc_state, ckbtc_minter, btc_journal>>
    /\ UNCHANGED <<collector_vars, rune_vars, fn_vars, minter_vars, cell_vars, nft_vars>>

BtcSendMintOrderSigned(c) ==
    LET call == btc_calls[c] IN
    /\ call.pc = "sign_transaction"
    /\ btc_calls' = [btc_calls EXCEPT ![c] = [call EXCEPT !.pc = "send_raw_transaction"]]
    /\ UNCHANGED <<btc_state, ckbtc_minter, btc_journal>>
    /\ UNCHANGED <<collector_vars, rune_vars, fn_vars, minter_vars, cell_vars, nft_vars>>

\* send_raw_transaction answers Ok: the status is Minted.
BtcSendMintOrderOk(c) ==
    LET call == btc_calls[c] IN
    /\ call.pc = "send_raw_transaction"
    /\ btc_journal' = [btc_journal EXCEPT !.minted = Append(@, call.evm_nonce)]
    /\ btc_calls' = [btc_calls EXCEPT ![c] = btc_next_utxo(BtcPushed(call,
          [status |-> "Minted",
           amount |-> checked_sub(Head(call.utxos).minted_amount, ck_btc_ledger_fee).v]))]
    /\ UNCHANGED <<btc_state, ckbtc_minter>>
    /\ UNCHANGED <<collector_vars, rune_vars, fn_vars, minter_vars, cell_vars, nft_vars>>

\* The calls of one caller.
NextBtc ==
    \/ BtcInitEvmState
    \/ \E a \in EthAddresses : BtcToErc20("c1", a)
    \/ \E err \in UpdateBalanceErrors : UpdateBalanceErr("c1", err)
    \/ \E answer \in UpdateBalanceAnswers(ckbtc_minter) : UpdateBalanceOk("c1", answer)
    \/ MintErc20Err("c1")
    \/ MintErc20Signed("c1")
    \/ MintErc20Transferred("c1")
    \/ BtcSendMintOrderErr("c1")
    \/ BtcSendMintOrderAddress("c1")
    \/ BtcSendMintOrderSigned("c1")
    \/ BtcSendMintOrderOk("c1")

---------------------------------------------------------------------------
(* Rune bridge: the gates of deposit, each called on its own.              *)

\* the transactions whose outputs the gates are given
Txids == {"t1", "t2"}

\* The GetUtxosResponse values given to a gate: a tip height and at most
\* one Utxo for each transaction.
UtxoInfos(heights, values) ==
    [utxos : {S \in SUBSET [outpoint : Txids, height : heights, value : values] :
                 \A u, v \in S : u.outpoint = v.outpoint => u = v},
     tip_height : heights]

\* The calls of validate_utxo_confirmations: the build, the state's
\* min_confirmations and the response.
ConfirmationCalls ==
    [fn : {"validate_utxo_confirmations"}, overflow_checks : BOOLEAN,
     min_confirmations : 0..MaxHeight,
     utxo_info : UtxoInfos(0..MaxHeight, {0})]

\* The calls of validate_utxo_btc_amount: the state's fees and the response.
AmountCalls ==
    [fn : {"validate_utxo_btc_amount"}, deposit_fee : 0..MaxValue,
     ledger_fee : 0..MaxValue, utxo_info : UtxoInfos({0}, 0..MaxValue)]

ValidateUtxoConfirmations ==
    /\ fn_call.fn = "validate_utxo_confirmations"
    /\ ~fn_ret.some
    /\ fn_ret' = Some(validate_utxo_confirmations(
                      fn_call.overflow_checks, fn_call.min_confirmations, fn_call.utxo_info))
    /\ UNCHANGED <<fn_call, collector_vars, rune_vars, btc_vars, minter_vars, cell_vars, nft_vars>>

ValidateUtxoBtcAmount ==
    /\ fn_call.fn = "validate_utxo_btc_amount"
    /\ ~fn_ret.some
    /\ fn_ret' = Some(validate_utxo_btc_amount(fn_call.deposit_fee, fn_call.utxo_info))
    /\ UNCHANGED <<fn_call, collector_vars, rune_vars, btc_vars, minter_vars, cell_vars, nft_vars>>

NextGates == ValidateUtxoConfirmations \/ ValidateUtxoBtcAmount

---------------------------------------------------------------------------
(* The NFT mint order and its codec.                                       *)

ENCODED_DATA_SIZE == 188
SIGNED_ENCODED_DATA_SIZE == ENCODED_DATA_SIZE + 65

\* u32::to_le_bytes
to_le_bytes(x) == <<x.lo % 256, x.lo \div 256, x.hi % 256, x.hi \div 256>>

\* u32::to_be_bytes and u32::from_be_bytes
to_be_bytes(x) == <<x.hi \div 256, x.hi % 256, x.lo \div 256, x.lo % 256>>
from_be_bytes(b) == [hi |-> b[1] * 256 + b[2], lo |-> b[3] * 256 + b[4]]

\* data[from..to]: None where the range is out of the slice (a panic).
slice(data, from, to) ==
    IF from <= to /\ to <= Len(data) THEN Some(SubSeq(data, from + 1, to)) ELSE None

\* String::from_utf8(bytes).is_ok()
continuation(b) == b >= 128 /\ b <= 191

RECURSIVE is_utf8(_)
is_utf8(bytes) ==
    IF bytes = <<>> THEN TRUE
    ELSE LET b == bytes[1]
             n == Len(bytes)
         IN IF b <= 127 THEN is_utf8(Tail(bytes))
            ELSE IF b >= 194 /\ b <= 223
            THEN n >= 2 /\ continuation(bytes[2]) /\ is_utf8(SubSeq(bytes, 3, n))
            ELSE IF b >= 224 /\ b <= 239
            THEN /\ n >= 3
                 /\ bytes[2] >= (IF b = 224 THEN 160 ELSE 128)
                 /\ bytes[2] <= (IF b = 237 THEN 159 ELSE 191)
                 /\ continuation(bytes[3])
                 /\ is_utf8(SubSeq(bytes, 4, n))
            ELSE IF b >= 240 /\ b <= 244
            THEN /\ n >= 4
                 /\ bytes[2] >= (IF b = 240 THEN 144 ELSE 128)
                 /\ bytes[2] <= (IF b = 244 THEN 143 ELSE 191)
                 /\ continuation(bytes[3])
                 /\ continuation(bytes[4])
                 /\ is_utf8(SubSeq(bytes, 5, n))
            ELSE FALSE

\* Signature from its 65 bytes, and the bytes of a Signature.
signature_from(bytes) ==
    [r |-> SubSeq(bytes, 1, 32), s |-> SubSeq(bytes, 33, 64), v |-> bytes[65]]

signature_bytes(signature) == signature.r \o signature.s \o <<signature.v>>

\* keccak256: the hash of a byte string stands for itself (no two byte
\* strings of the model have the same hash).
keccak256(bytes) == [keccak256 |-> bytes]

\* encode_and_sign with a digest of the fixed part of the buffer only.
encode_and_sign_fixed_part(order, signature) ==
    LET data == order.token_uri
        data_size == Len(data)
        fields ==
            order.sender \o order.src_token \o order.recipient \o order.dst_token
            \o to_be_bytes(order.nonce) \o to_be_bytes(order.sender_chain_id)
            \o to_be_bytes(order.recipient_chain_id) \o order.name \o order.symbol
            \o order.approve_spender \o to_be_bytes(u32(data_size)) \o data
        digest == keccak256(SubSeq(fields, 1, ENCODED_DATA_SIZE))
    IN IF ~signature.some THEN [kind |-> "Err", digest |-> digest]
       ELSE [kind |-> "Ok", digest |-> digest,
             bytes |-> fields \o signature_bytes(signature.v)]

\* MintOrder::encode_and_sign, given what sign_digest answers (None: an
\* error): Err, or the bytes of the SignedMintOrder; and the digest that
\* sign_digest was given.
encode_and_sign(order, signature) ==
    LET data == order.token_uri
        data_size == Len(data)
        last_data_index == ENCODED_DATA_SIZE + data_size
        fields ==
            order.sender \o order.src_token \o order.recipient \o order.dst_token
            \o to_be_bytes(order.nonce) \o to_be_bytes(order.sender_chain_id)
            \o to_be_bytes(order.recipient_chain_id) \o order.name \o order.symbol
            \o order.approve_spender \o to_be_bytes(u32(data_size)) \o data
        digest == keccak256(SubSeq(fields, 1, last_data_index))
    IN IF ~signature.some THEN [kind |-> "Err", digest |-> digest]
       ELSE [kind |-> "Ok", digest |-> digest,
             bytes |-> fields \o signature_bytes(signature.v)]

\* MintOrder::decode_data: None, Some(order) or a panic.  A declared size
\* of 2^16 or more is beyond the end of every slice of the model.
decode_data(data) ==
    IF Len(data) < ENCODED_DATA_SIZE THEN [kind |-> "None"]
    ELSE LET data_size == from_be_bytes(SubSeq(data, 185, 188))
             token_uri == IF data_size.hi > 0 THEN None
                          ELSE slice(data, 188, 188 + data_size.lo)
         IN IF ~token_uri.some \/ ~is_utf8(token_uri.v) THEN [kind |-> "panic"]
            ELSE [kind |-> "Some",
                  order |-> [sender |-> SubSeq(data, 1, 32),
                             src_token |-> SubSeq(data, 33, 64),
                             recipient |-> SubSeq(data, 65, 84),
                             dst_token |-> SubSeq(data, 85, 104),
                             nonce |-> from_be_bytes(SubSeq(data, 105, 108)),
                             sender_chain_id |-> from_be_bytes(SubSeq(data, 109, 112)),
                             recipient_chain_id |-> from_be_bytes(SubSeq(data, 113, 116)),
                             name |-> SubSeq(data, 117, 148),
                             symbol |-> SubSeq(data, 149, 164),
                             approve_spender |-> SubSeq(data, 165, 184),
                             token_uri |-> token_uri.v]]

\* MintOrder::decode_signed: None, Some((order, signature)) or a panic.
decode_signed(data) ==
    IF Len(data) < SIGNED_ENCODED_DATA_SIZE THEN [kind |-> "None"]
    ELSE LET decoded_data == decode_data(data) IN
         IF decoded_data.kind # "Some" THEN decoded_data
         ELSE LET signature_start == ENCODED_DATA_SIZE + Len(decoded_data.order.token_uri)
                  signature == slice(data, signature_start, signature_start + 65)
              IN IF ~signature.some THEN [kind |-> "panic"]
                 ELSE [kind |-> "Some", order |-> decoded_data.order,
                       signature |-> signature_from(signature.v)]

\* n bytes, each different from its neighbours and from the bytes at the
\* same place in the other fields
Bytes(n, first) == [i \in 1..n |-> (first + i) % 256]

\* token URIs: "", "a", "e" with an acute accent (two bytes), "abc"
TokenUris == {<<>>, <<97>>, <<195, 169>>, <<97, 98, 99>>}

MintOrders ==
    [sender : {Bytes(32, 0), Bytes(32, 100)}, src_token : {Bytes(32, 32)},
     recipient : {Bytes(20, 64)}, dst_token : {Bytes(20, 84)},
     nonce : {u32(0), u32(258), [hi |-> U16 - 1, lo |-> U16 - 1]},
     sender_chain_id : {u32(1), u32(U16 + 3)},
     recipient_chain_id : {u32(355113)},
     name : {Bytes(32, 116)}, symbol : {Bytes(16, 148)},
     approve_spender : {Bytes(20, 164)}, token_uri : TokenUris]

\* What sign_digest answers: an error, or a signature.
Signatures ==
    {None} \cup {Some([r |-> Bytes(32, 200), s |-> Bytes(32, 232), v |-> v]) : v \in {27, 28}}

EncodeCalls == [fn : {"encode_and_sign"}, order : MintOrders, signature : Signatures]

\* The byte strings given to the decoders that no encode_and_sign made:
\* the beginnings of the encodings of some orders, and these encodings with
\* one byte of the declared size or of what follows it changed.
Encodings ==
    {encode_and_sign(order, Some([r |-> Bytes(32, 200), s |-> Bytes(32, 232), v |-> 27])).bytes :
        order \in {o \in MintOrders : /\ o.sender = Bytes(32, 0)
                                       /\ o.nonce = u32(258)
                                       /\ o.sender_chain_id = u32(1)}}

ByteStrings ==
    UNION {{SubSeq(e, 1, k) : k \in {0} \cup (ENCODED_DATA_SIZE - 1)..Len(e)}
           \cup {[e EXCEPT ![i] = b] : i \in 185..191, b \in {0, 1, 2, 128, 255}} :
           e \in Encodings}

DecodeCalls ==
    [fn : {"decode_data", "decode_signed"}, data : ByteStrings, order : {None}]

EncodeAndSign ==
    /\ fn_call.fn = "encode_and_sign"
    /\ ~fn_ret.some
    /\ fn_ret' = Some(encode_and_sign(fn_call.order, fn_call.signature))
    /\ UNCHANGED <<fn_call, collector_vars, rune_vars, btc_vars, minter_vars, cell_vars, nft_vars>>

\* The caller of encode_and_sign gives the SignedMintOrder to a decoder.
PassToDecoder(fn) ==
    /\ fn_call.fn = "encode_and_sign"
    /\ fn_ret.some
    /\ fn_ret.v.kind = "Ok"
    /\ fn_call' = [fn |-> fn, data |-> fn_ret.v.bytes, order |-> Some(fn_call.order)]
    /\ fn_ret' = None
    /\ UNCHANGED <<collector_vars, rune_vars, btc_vars, minter_vars, cell_vars, nft_vars>>

DecodeData ==
    /\ fn_call.fn = "decode_data"
    /\ ~fn_ret.some
    /\ fn_ret' = Some(decode_data(fn_call.data))
    /\ UNCHANGED <<fn_call, collector_vars, rune_vars, btc_vars, minter_vars, cell_vars, nft_vars>>

DecodeSigned ==
    /\ fn_call.fn = "decode_signed"
    /\ ~fn_ret.some
    /\ fn_ret' = Some(decode_signed(fn_call.data))
    /\ UNCHANGED <<fn_call, collector_vars, rune_vars, btc_vars, minter_vars, cell_vars, nft_vars>>

NextCodec ==
    \/ EncodeAndSign
    \/ \E fn \in {"decode_data", "decode_signed"} : PassToDecoder(fn)
    \/ DecodeData
    \/ DecodeSigned

---------------------------------------------------------------------------
(* The MintOrders store.                                                   *)

\* The store holds at most this many orders at a time.
MaxStored == 2

\* the src_token of every order of a bridge's MintOrdersStore
SRC_TOKEN == [i \in 1..32 |-> 0]

\* the Id256 the calls insert under: senders and tokens, of 32 bytes each
Id256s == {SRC_TOKEN, Bytes(32, 100)}

\* operation ids whose byte order differs between the two endiannesses
OperationIds == {u32(1), u32(256)}

\* SignedMintOrder(vec![b; MintOrder::SIGNED_ENCODED_DATA_SIZE])
SignedMintOrders == {[i \in 1..SIGNED_ENCODED_DATA_SIZE |-> b] : b \in {0, 1}}

\* The order of the keys of a stable map: the order of their bytes.
RECURSIVE bytes_lt(_, _)
bytes_lt(a, b) ==
    IF a = <<>> \/ b = <<>> THEN a = <<>> /\ b # <<>>
    ELSE \/ Head(a) < Head(b)
         \/ Head(a) = Head(b) /\ bytes_lt(Tail(a), Tail(b))

RECURSIVE in_key_order(_)
in_key_order(entries) ==
    IF entries = {} THEN <<>>
    ELSE LET first == CHOOSE e \in entries :
                          \A o \in entries \ {e} : bytes_lt(e.k2, o.k2)
         IN <<first>> \o in_key_order(entries \ {first})

\* StableMultimap<MintOrderKey, u32, SignedMintOrder>: one value for each
\* pair of keys, the second key stored as the bytes of the u32.
multimap_get(map, k1, k2) ==
    LET found == {e \in map : e.k1 = k1 /\ e.k2 = to_be_bytes(k2)} IN
    IF found = {} THEN None ELSE Some((CHOOSE e \in found : TRUE).v)

multimap_remove(map, k1, k2) ==
    [map |-> {e \in map : ~(e.k1 = k1 /\ e.k2 = to_be_bytes(k2))},
     ret |-> multimap_get(map, k1, k2)]

multimap_insert(map, k1, k2, v) ==
    [map |-> multimap_remove(map, k1, k2).map
                \cup {[k1 |-> k1, k2 |-> to_be_bytes(k2), v |-> v]},
     ret |-> multimap_get(map, k1, k2)]

\* range with every first key: the mutation of multimap_range
multimap_range_all(map, k1) ==
    LET found == in_key_order(map) IN
    [i \in DOMAIN found |-> <<from_be_bytes(found[i].k2), found[i].v>>]

\* range(&key): the entries of one first key, in the order of the second.
multimap_range(map, k1) ==
    LET found == in_key_order({e \in map : e.k1 = k1}) IN
    [i \in DOMAIN found |-> <<from_be_bytes(found[i].k2), found[i].v>>]

MintOrderKey(sender, src_token) == [sender |-> sender, src_token |-> src_token]

\* insert with the key of the sender alone: the mutation of insert
insert_by_sender(self, sender, src_token, operation_id, order) ==
    LET r == multimap_insert(self.mint_orders_map, MintOrderKey(sender, sender),
                             operation_id, order)
    IN [self |-> [self EXCEPT !.mint_orders_map = r.map], ret |-> r.ret]

\* MintOrders::insert: the store after it, and what it returns.
insert(self, sender, src_token, operation_id, order) ==
    LET r == multimap_insert(self.mint_orders_map, MintOrderKey(sender, src_token),
                             operation_id, order)
    IN [self |-> [self EXCEPT !.mint_orders_map = r.map], ret |-> r.ret]

get(self, sender, src_token, operation_id) ==
    multimap_get(self.mint_orders_map, MintOrderKey(sender, src_token), operation_id)

get_all(self, sender, src_token) ==
    multimap_range(self.mint_orders_map, MintOrderKey(sender, src_token))

clear(self) == [self EXCEPT !.mint_orders_map = {}]

\* remove of every order of the sender and token: the mutation of remove
remove_all(self, sender, src_token, operation_id) ==
    [self |-> [self EXCEPT !.mint_orders_map =
                  {e \in @ : e.k1 # MintOrderKey(sender, src_token)}],
     ret |-> get(self, sender, src_token, operation_id)]

\* MintOrders::remove: the store after it, and what it returns.
remove(self, sender, src_token, operation_id) ==
    LET r == multimap_remove(self.mint_orders_map, MintOrderKey(sender, src_token),
                             operation_id)
    IN [self |-> [self EXCEPT !.mint_orders_map = r.map], ret |-> r.ret]

\* The calls on the store: the name of the call is kept with what it
\* returned.
Insert(sender, src_token, operation_id, order) ==
    LET r == insert(orders, sender, src_token, operation_id, order) IN
    /\ Cardinality(r.self.mint_orders_map) <= MaxStored
    /\ orders' = r.self
    /\ fn_call' = [fn |-> "insert"]
    /\ fn_ret' = Some(r.ret)
    /\ UNCHANGED <<NONCES_COUNTER, nonces, collector_vars, rune_vars, btc_vars, cell_vars, nft_vars>>

Get(sender, src_token, operation_id) ==
    /\ fn_call' = [fn |-> "get"]
    /\ fn_ret' = Some(get(orders, sender, src_token, operation_id))
    /\ UNCHANGED <<minter_vars, collector_vars, rune_vars, btc_vars, cell_vars, nft_vars>>

GetAll(sender, src_token) ==
    /\ fn_call' = [fn |-> "get_all"]
    /\ fn_ret' = Some(get_all(orders, sender, src_token))
    /\ UNCHANGED <<minter_vars, collector_vars, rune_vars, btc_vars, cell_vars, nft_vars>>

Remove(sender, src_token, operation_id) ==
    LET r == remove(orders, sender, src_token, operation_id) IN
    /\ orders' = r.self
    /\ fn_call' = [fn |-> "remove"]
    /\ fn_ret' = Some(r.ret)
    /\ UNCHANGED <<NONCES_COUNTER, nonces, collector_vars, rune_vars, btc_vars, cell_vars, nft_vars>>

Clear ==
    /\ orders' = clear(orders)
    /\ fn_call' = [fn |-> "clear"]
    /\ fn_ret' = Some(<<>>)
    /\ UNCHANGED <<NONCES_COUNTER, nonces, collector_vars, rune_vars, btc_vars, cell_vars, nft_vars>>

\* Id256::from_slice: an Id256 is made of exactly 32 bytes.
from_slice(bytes) == IF Len(bytes) = 32 THEN Some(bytes) ELSE None

\* remove that removes nothing: the mutation of MintOrdersStore_remove
MintOrdersStore_keep(self, sender, nonce) == self

\* MintOrdersStore::push and MintOrdersStore::remove of a bridge: the
\* orders are kept under SRC_TOKEN, what insert and remove return is
\* dropped.
MintOrdersStore_push(self, sender, nonce, mint_order) ==
    insert(self, sender, SRC_TOKEN, nonce, mint_order).self

MintOrdersStore_remove(self, sender, nonce) ==
    remove(self, sender, SRC_TOKEN, nonce).self

\* the sender_id of a Minted event: 32 bytes, or not
SenderIds == Id256s \cup {SubSeq(Bytes(32, 100), 1, 31), <<>>}

MintedEventDatas == [sender_id : SenderIds, nonce : OperationIds]

\* Brc20Task::remove_mint_order on the store of the state: the store
\* after it, and what the task returns.
remove_mint_order(self, minted_event) ==
    LET sender_id == from_slice(minted_event.sender_id) IN
    IF ~sender_id.some
    THEN [self |-> self, ret |-> [kind |-> "Err", error |-> "TaskExecutionFailed"]]
    ELSE [self |-> MintOrdersStore_remove(self, sender_id.v, minted_event.nonce),
          ret |-> [kind |-> "Ok"]]

\* A RemoveMintOrder task is executed.
RemoveMintOrder(minted_event) ==
    LET r == remove_mint_order(orders, minted_event) IN
    /\ orders' = r.self
    /\ fn_call' = [fn |-> "remove_mint_order", minted_event |-> minted_event]
    /\ fn_ret' = Some(r.ret)
    /\ UNCHANGED <<NONCES_COUNTER, nonces, collector_vars, rune_vars, btc_vars, cell_vars, nft_vars>>

\* A bridge pushes a signed mint order.
Push(sender, nonce, mint_order) ==
    LET self == MintOrdersStore_push(orders, sender, nonce, mint_order) IN
    /\ Cardinality(self.mint_orders_map) <= MaxStored
    /\ orders' = self
    /\ fn_call' = [fn |-> "push"]
    /\ fn_ret' = Some(<<>>)
    /\ UNCHANGED <<NONCES_COUNTER, nonces, collector_vars, rune_vars, btc_vars, cell_vars, nft_vars>>

NextMintOrders ==
    \/ \E minted_event \in MintedEventDatas : RemoveMintOrder(minted_event)
    \/ \E sender \in Id256s, nonce \in OperationIds, mint_order \in SignedMintOrders :
          Push(sender, nonce, mint_order)
    \/ \E sender \in Id256s, src_token \in Id256s, operation_id \in OperationIds :
          \/ \E order \in SignedMintOrders :
                Insert(sender, src_token, operation_id, order)
          \/ Get(sender, src_token, operation_id)
          \/ Remove(sender, src_token, operation_id)
    \/ \E sender \in Id256s, src_token \in Id256s : GetAll(sender, src_token)
    \/ Clear

---------------------------------------------------------------------------
(* The minter canister: the nonce counter.                                 *)

\* next_nonce is called at most this many times after the counter's
\* initial value.
MaxNonces == 4

\* u32::MAX
MAX_U32 == [hi |-> U16 - 1, lo |-> U16 - 1]

\* The values of NONCES_COUNTER the calls start from: next_nonce has been
\* called that many times since the reset.
StartCounters ==
    {[hi |-> hi, lo |-> lo] : hi \in {0, 1, U16 - 1}, lo \in {0, 1, U16 - 3, U16 - 2, U16 - 1}}

\* next_nonce that leaves the counter as it is: the mutation of next_nonce
next_nonce_stale(overflow_checks, counter) ==
    [kind |-> "Ok", nonce |-> counter, counter |-> counter]

\* State::next_nonce on a counter, in a build with or without overflow
\* checks: the nonce it returns and the counter it sets, or a panic.
next_nonce(overflow_checks, counter) ==
    LET sum == u32_add(overflow_checks, counter, u32(1)) IN
    IF sum.some
    THEN [kind |-> "Ok", nonce |-> counter, counter |-> sum.v]
    ELSE [kind |-> "panic", counter |-> counter]

\* A call of next_nonce.  A call that panics traps: the counter stays.
NextNonce ==
    /\ Len(nonces.since) < MaxNonces
    /\ \E overflow_checks \in BOOLEAN :
          LET r == next_nonce(overflow_checks, NONCES_COUNTER) IN
          /\ NONCES_COUNTER' = r.counter
          /\ nonces' = IF r.kind = "Ok"
                       THEN [nonces EXCEPT !.since = Append(@, r.nonce)]
                       ELSE nonces
          /\ fn_call' = [fn |-> "next_nonce", counter |-> NONCES_COUNTER]
          /\ fn_ret' = Some([kind |-> r.kind])
    /\ UNCHANGED <<orders, collector_vars, rune_vars, btc_vars, cell_vars, nft_vars>>

\* State::reset: the orders are cleared and the counter is set to 0.
Reset ==
    /\ orders' = clear(orders)
    /\ NONCES_COUNTER' = u32(0)
    /\ nonces' = [below |-> u32(0), since |-> <<>>]
    /\ fn_call' = [fn |-> "reset", counter |-> NONCES_COUNTER]
    /\ fn_ret' = Some([kind |-> "Ok"])
    /\ UNCHANGED <<collector_vars, rune_vars, btc_vars, cell_vars, nft_vars>>

NextNonces == NextNonce \/ Reset

---------------------------------------------------------------------------
(* Bitcoin fee estimation.                                                 *)

BitcoinNetworks == {"Mainnet", "Testnet", "Regtest"}

\* the rune bridge's default, in millisatoshi per vbyte
DEFAULT_REGTEST_FEE == 10000

\* What bitcoin_get_current_fee_percentiles answers with: no percentile,
\* or the 101 percentiles in millisatoshi per vbyte, in ascending order.
FeePercentiles ==
    {<<>>} \cup {[i \in 1..101 |-> base + step * (i - 1)] :
                    base \in {0, 999, 1000, 2000, 5000}, step \in {0, 10, 1000}}

\* FeeRate::from_sat_per_vb: the rate in satoshi per 1000 weight units,
\* None when it is no u64, which no percentile of the model leads to.
from_sat_per_vb(sat_vb) == Some(sat_vb * (1000 \div 4))

\* get_fee_rate of the rune bridge: `response` is None when the call to
\* the management canister failed.
get_fee_rate(network, response) ==
    IF ~response.some THEN [kind |-> "Err", error |-> "FeeRateRequest"]
    ELSE IF response.v = <<>> /\ network # "Regtest"
    THEN [kind |-> "Err", error |-> "FeeRateRequest"]
    ELSE LET middle_percentile ==
                 IF response.v = <<>> THEN DEFAULT_REGTEST_FEE
                 ELSE response.v[Len(response.v) \div 2 + 1]
             fee_rate == from_sat_per_vb(middle_percentile \div 1000)
         IN IF fee_rate.some THEN [kind |-> "Ok", fee_rate |-> fee_rate.v]
            ELSE [kind |-> "Err", error |-> "FeeRateRequest"]

\* CanisterWallet::get_fee_rate of the inscriber: the 90th percentile, or
\* 2000 when there is none; indexing a shorter answer panics.
CanisterWallet_get_fee_rate(bitcoin_network, fee_percentiles) ==
    IF fee_percentiles # <<>> /\ Len(fee_percentiles) <= 90 THEN [kind |-> "panic"]
    ELSE LET fee_per_byte == IF fee_percentiles = <<>> THEN 2000
                             ELSE fee_percentiles[90 + 1]
             fee_rate == from_sat_per_vb(fee_per_byte)
         IN IF fee_rate.some THEN [kind |-> "Ok", fee_rate |-> fee_rate.v]
            ELSE [kind |-> "panic"]

FeeRateCalls ==
    [fn : {"get_fee_rate"}, network : BitcoinNetworks,
     response : {None} \cup {Some(r) : r \in FeePercentiles}]
    \cup [fn : {"CanisterWallet_get_fee_rate"}, network : BitcoinNetworks,
          response : {Some(r) : r \in FeePercentiles}]

GetFeeRate ==
    /\ fn_call.fn = "get_fee_rate"
    /\ ~fn_ret.some
    /\ fn_ret' = Some(get_fee_rate(fn_call.network, fn_call.response))
    /\ UNCHANGED <<fn_call, collector_vars, rune_vars, btc_vars, minter_vars, cell_vars, nft_vars>>

CanisterWalletGetFeeRate ==
    /\ fn_call.fn = "CanisterWallet_get_fee_rate"
    /\ ~fn_ret.some
    /\ fn_ret' = Some(CanisterWallet_get_fee_rate(fn_call.network, fn_call.response.v))
    /\ UNCHANGED <<fn_call, collector_vars, rune_vars, btc_vars, minter_vars, cell_vars, nft_vars>>

NextFeeRate == GetFeeRate \/ CanisterWalletGetFeeRate

---------------------------------------------------------------------------
(* The BurnRequestStore of the NFT bridge.                                 *)

BurnRequestIds == {1, 2}
BurnAddresses == {"bc1qa", "bc1qb"}
RevealTxIds == {"txa", "txb"}

\* StableBTreeMap::insert and StableBTreeMap::remove: the map is a function
\* of the keys, None where the key has no value.
btree_insert(map, key, value) == [map EXCEPT ![key] = Some(value)]
btree_remove(map, key) == [map EXCEPT ![key] = None]

\* set_transferred that marks every stored request.
BurnRequestStore_set_all_transferred(inner, request_id) ==
    [id \in DOMAIN inner |->
        IF inner[id].some THEN Some([inner[id].v EXCEPT !.is_transferred = TRUE])
        ELSE None]

BurnRequestStore_insert(inner, request_id, address, reveal_txid) ==
    btree_insert(inner, request_id,
                 [address |-> address, reveal_txid |-> reveal_txid,
                  is_transferred |-> FALSE])

BurnRequestStore_remove(inner, request_id) == btree_remove(inner, request_id)

BurnRequestStore_set_transferred(inner, request_id) ==
    LET removed == inner[request_id] IN
    IF removed.some
    THEN btree_insert(btree_remove(inner, request_id), request_id,
                      [removed.v EXCEPT !.is_transferred = TRUE])
    ELSE inner

InsertBurnRequest(request_id, address, reveal_txid) ==
    /\ fn_call' = [fn |-> "BurnRequestStore::insert", request_id |-> request_id]
    /\ fn_ret' = None
    /\ burn_requests' = BurnRequestStore_insert(burn_requests, request_id, address, reveal_txid)
    /\ UNCHANGED <<collector_vars, rune_vars, btc_vars, minter_vars, cell_vars>>

RemoveBurnRequest(request_id) ==
    /\ fn_call' = [fn |-> "BurnRequestStore::remove", request_id |-> request_id]
    /\ fn_ret' = None
    /\ burn_requests' = BurnRequestStore_remove(burn_requests, request_id)
    /\ UNCHANGED <<collector_vars, rune_vars, btc_vars, minter_vars, cell_vars>>

SetTransferred(request_id) ==
    /\ fn_call' = [fn |-> "BurnRequestStore::set_transferred", request_id |-> request_id]
    /\ fn_ret' = None
    /\ burn_requests' = BurnRequestStore_set_transferred(burn_requests, request_id)
    /\ UNCHANGED <<collector_vars, rune_vars, btc_vars, minter_vars, cell_vars>>

NextBurnRequests ==
    \/ \E request_id \in BurnRequestIds, address \in BurnAddresses,
          reveal_txid \in RevealTxIds :
          InsertBurnRequest(request_id, address, reveal_txid)
    \/ \E request_id \in BurnRequestIds : RemoveBurnRequest(request_id)
    \/ \E request_id \in BurnRequestIds : SetTransferred(request_id)

---------------------------------------------------------------------------
(* The RefCell of the State: the borrows of the operations.                *)

\* Each canister keeps its State in one RefCell.
CanisterNames == {"brc20", "rune", "btc"}

\* An operation is the sequence of its segments, each run without
\* interruption up to an await or to the return; a segment is the sequence
\* of what it does to the RefCell: "borrow" and "borrow_mut" take the Ref
\* or RefMut, "drop" is the end of the statement or of the block that
\* holds the one taken last.

\* collect_evm_events with the RefMut taken before collect_logs is awaited.
collect_evm_events_held ==
    << <<"borrow", "drop", "borrow_mut">>,
       <<"drop">> >>

\* init_evm_state: get_evm_info and the signer are read, get_address is
\* awaited; EvmParams::query is awaited; update_evm_params.
init_evm_state ==
    << <<"borrow", "drop", "borrow", "drop">>,
       <<>>,
       <<"borrow_mut", "drop">> >>

\* collect_evm_events: get_evm_info is read, collect_logs is awaited;
\* mut_state is taken and held to the return.
collect_evm_events ==
    << <<"borrow", "drop">>,
       <<"borrow_mut", "drop">> >>

\* A call that is answered without an await: init and the admin calls
\* write the configuration.
configure_call == << <<"borrow_mut", "drop">> >>

\* deposit of the rune bridge, with one UTXO and one rune: get_utxos;
\* the filter, the gates and get_tx_outputs; fill_rune_infos from the
\* state, then get_rune_list; update_rune_list, the sender and
\* create_mint_order; push, ledger deposit and send_mint_order, with its
\* three awaits; update_evm_params.
rune_deposit ==
    << <<"borrow", "drop">>,
       <<"borrow", "drop", "borrow", "drop", "borrow", "drop", "borrow", "drop">>,
       <<"borrow", "drop", "borrow", "drop">>,
       <<"borrow_mut", "drop", "borrow", "drop", "borrow", "drop">>,
       <<"borrow_mut", "drop", "borrow_mut", "drop", "borrow", "drop">>,
       <<"borrow", "drop">>,
       <<>>,
       <<"borrow_mut", "drop">> >>

\* mint_erc20 of the BTC bridge: the fee and prepare_mint_order;
\* transfer_ckbtc_from_subaccount; store_mint_order and send_mint_order,
\* with its three awaits.
mint_erc20 ==
    << <<"borrow", "drop", "borrow", "drop">>,
       <<"borrow", "drop">>,
       <<"borrow_mut", "drop", "borrow", "drop">>,
       <<"borrow", "drop">>,
       <<>>,
       <<>> >>

\* The operations of each canister.
Operations ==
    [brc20 |-> {"init_evm_state", "collect_evm_events", "configure"},
     rune |-> {"deposit"},
     btc |-> {"mint_erc20"}]

Segments(op) ==
    CASE op = "init_evm_state" -> init_evm_state
      [] op = "collect_evm_events" -> collect_evm_events
      [] op = "configure" -> configure_call
      [] op = "deposit" -> rune_deposit
      [] op = "mint_erc20" -> mint_erc20

\* RefCell::borrow, RefCell::borrow_mut and the drop of a Ref or RefMut, on
\* the borrow flag (the number of Refs, or -1 for a RefMut) and on the
\* borrows `held` by the operation, the last one first.
RECURSIVE run_segment(_, _, _)
run_segment(flag, held, events) ==
    IF events = <<>> THEN [flag |-> flag, held |-> held, panic |-> FALSE]
    ELSE CASE Head(events) = "borrow" ->
                IF flag < 0 THEN [flag |-> flag, held |-> held, panic |-> TRUE]
                ELSE run_segment(flag + 1, <<"borrow">> \o held, Tail(events))
           [] Head(events) = "borrow_mut" ->
                IF flag # 0 THEN [flag |-> flag, held |-> held, panic |-> TRUE]
                ELSE run_segment(-1, <<"borrow_mut">> \o held, Tail(events))
           [] Head(events) = "drop" ->
                run_segment(IF Head(held) = "borrow" THEN flag - 1 ELSE 0,
                            Tail(held), Tail(events))

\* The return of a future, or its drop after a panic: what it holds is
\* dropped.
RECURSIVE drop_all(_, _)
drop_all(flag, held) ==
    IF held = <<>> THEN flag
    ELSE drop_all(IF Head(held) = "borrow" THEN flag - 1 ELSE 0, Tail(held))

Idle == [canister |-> "none", op |-> "none", pc |-> 0, held |-> <<>>]

\* The future f runs the segment pc of its operation.
RunSegment(f, canister, op, pc, held) ==
    LET r == run_segment(cells[canister], held, Segments(op)[pc])
        returns == r.panic \/ pc = Len(Segments(op))
    IN
    /\ borrow_panic' = (borrow_panic \/ r.panic)
    /\ cells' = [cells EXCEPT ![canister] = IF returns THEN drop_all(r.flag, r.held) ELSE r.flag]
    /\ futures' = [futures EXCEPT ![f] =
          IF returns THEN Idle
          ELSE [canister |-> canister, op |-> op, pc |-> pc, held |-> r.held]]
    /\ UNCHANGED <<collector_vars, rune_vars, btc_vars, fn_vars, minter_vars, nft_vars>>

\* A call or a task starts an operation and runs to its first await.
CallOperation(f, canister, op) ==
    /\ futures[f] = Idle
    /\ RunSegment(f, canister, op, 1, <<>>)

\* The call a future awaits is answered: the future goes on.
ResumeOperation(f) ==
    /\ futures[f] # Idle
    /\ RunSegment(f, futures[f].canister, futures[f].op, futures[f].pc + 1, futures[f].held)

\* The call a future awaits has failed: the future returns the error.
FailOperation(f) ==
    /\ futures[f] # Idle
    /\ cells' = [cells EXCEPT ![futures[f].canister] = drop_all(@, futures[f].held)]
    /\ futures' = [futures EXCEPT ![f] = Idle]
    /\ UNCHANGED borrow_panic
    /\ UNCHANGED <<collector_vars, rune_vars, btc_vars, fn_vars, minter_vars, nft_vars>>

NextBorrow ==
    \/ \E f \in Callers : \E canister \in CanisterNames :
          \E op \in Operations[canister] : CallOperation(f, canister, op)
    \/ \E f \in Callers : ResumeOperation(f)
    \/ \E f \in Callers : FailOperation(f)

---------------------------------------------------------------------------
(* The specifications.                                                     *)

\* The canisters after init: the BRC-20 bridge is configured and has
\* appended InitEvmState; the stores of the rune bridge and of the BTC
\* bridge are empty, NONCE is 0, no EVM parameters are known yet.
Bridges ==
    /\ rune_state = [mint_orders |-> {}, ledger |-> {}, evm_params |-> None]
    /\ NONCE = 0
    /\ rune_calls = [c \in Callers |-> NoCall]
    /\ rune_journal = [orders |-> <<>>, minted |-> <<>>,
                       sent |-> [o \in Outpoints |-> "none"]]
    /\ btc_state = [mint_orders |-> {}, evm_params |-> None, tasks |-> <<>>]
    /\ btc_calls = [c \in Callers |-> NoBtcCall]
    /\ ckbtc_minter = {}
    /\ btc_journal = [signed |-> <<>>, transferred |-> <<>>, stored |-> <<>>,
                      minted |-> <<>>]
    /\ cells = [canister \in CanisterNames |-> 0]
    /\ futures = [f \in Callers |-> Idle]
    /\ borrow_panic = FALSE
    /\ burn_requests = [request_id \in BurnRequestIds |-> None]

Canisters ==
    /\ brc20_state = configure(State_default(None), InitConfig).state
    /\ brc20_tasks = <<init_evm_info_task>>
    /\ evm_logs = <<>>
    /\ evm_safe = 0
    /\ journal = [created |-> [l \in LogIds |-> "none"], failed |-> {}, completed |-> {}]
    /\ Bridges

\* The minter canister after init: its store is empty, NONCES_COUNTER is 0
\* and next_nonce has returned nothing.
Minter ==
    /\ orders = [mint_orders_map |-> {}]
    /\ NONCES_COUNTER = u32(0)
    /\ nonces = [below |-> u32(0), since |-> <<>>]

\* No function is called on its own.
Init ==
    /\ Canisters
    /\ Minter
    /\ fn_call = [fn |-> "none"]
    /\ fn_ret = None

CollectorStep ==
    \/ EvmFinalise
    \/ Tick
    \/ \E i \in DOMAIN brc20_tasks : InitEvmStateOk(i)
    \/ \E i \in DOMAIN brc20_tasks : InitEvmStateErr(i)
    \/ \E i \in DOMAIN brc20_tasks : CollectEvmEventsErr(i)
    \/ \E i \in DOMAIN brc20_tasks :
          /\ brc20_tasks[i].status = "AwaitLogs"
          /\ \E logs \in Replies(brc20_tasks[i].params.v.next_block) :
                CollectEvmEvents(i, logs)
    \/ \E i \in DOMAIN brc20_tasks : InscribeBrc20Ok(i)
    \/ \E i \in DOMAIN brc20_tasks : InscribeBrc20Err(i)

NextCollector == EvmEmit(MaxLogs) \/ CollectorStep

SpecCollector == Init /\ [][NextCollector]_vars

\* The collector of a canister that may be upgraded.
NextUpgrade == NextCollector \/ PostUpgrade

SpecUpgrade == Init /\ [][NextUpgrade]_vars

\* The collector with a node that answers with the logs in any order.
NextCollectorAnyReply ==
    \/ NextCollector
    \/ \E i \in DOMAIN brc20_tasks :
          /\ brc20_tasks[i].status = "AwaitLogs"
          /\ \E logs \in AnyReplies(brc20_tasks[i].params.v.next_block) :
                CollectEvmEvents(i, logs)

SpecCollectorAnyReply == Init /\ [][NextCollectorAnyReply]_vars

\* One round of the collector that asked for the logs from block 1 on,
\* on a chain that holds any logs, finalised up to any block, and is
\* answered with the logs in any order.
InitRound ==
    /\ brc20_state = [configure(State_default(None), InitConfig).state EXCEPT
                         !.evm_params = Some([nonce |-> 0, next_block |-> 1])]
    /\ brc20_tasks = <<[collect_evm_events_task EXCEPT
                           !.status = "AwaitLogs", !.params = brc20_state.evm_params]>>
    /\ evm_logs \in UNION {[1..n -> LogKinds] : n \in 0..MaxLogs}
    /\ evm_safe \in 0..Len(evm_logs)
    /\ journal = [created |-> [l \in LogIds |-> "none"], failed |-> {}, completed |-> {}]
    /\ Bridges
    /\ Minter
    /\ fn_call = [fn |-> "none"]
    /\ fn_ret = None

NextRound ==
    \E i \in DOMAIN brc20_tasks :
       /\ brc20_tasks[i].status = "AwaitLogs"
       /\ \E logs \in AnyReplies(brc20_tasks[i].params.v.next_block) :
             CollectEvmEvents(i, logs)

SpecRound == InitRound /\ [][NextRound]_vars

NextFairCollector == EvmEmit(MaxFairLogs) \/ CollectorStep

\* The collector and the MintErc20 tasks of the deposits.
NextMintTasks ==
    \/ NextFairCollector
    \/ \E max_retries \in MintErc20Policies : ScheduleMintErc20(max_retries)
    \/ \E i \in DOMAIN brc20_tasks : Brc20MintErc20Ok(i)
    \/ \E i \in DOMAIN brc20_tasks : Brc20MintErc20Err(i)

SpecMintTasks == Init /\ [][NextMintTasks]_vars

\* The collector and the mint transactions of the deposits.
NextCollectorAndMints == NextFairCollector \/ Brc20SendMintOrder

SpecCollectorAndMints == Init /\ [][NextCollectorAndMints]_vars

\* The collector on a chain of MaxFairLogs logs, with no assumption on how
\* often the timer fires or erc20_to_brc20 fails.
SpecBurns == Init /\ [][NextFairCollector]_vars

\* The timer fires again and again, and an InscribeBrc20 task whose
\* erc20_to_brc20 is called again and again is answered Ok at some time
\* (its failures are transient).
FairSpecCollector ==
    /\ Init /\ [][NextFairCollector]_vars
    /\ WF_vars(Tick)
    /\ \A l \in LogIds :
          SF_vars(\E i \in DOMAIN brc20_tasks :
                     brc20_tasks[i].log.log = l /\ InscribeBrc20Ok(i))

\* The timer fires again and again, and the calls of init_evm_state are
\* answered, with a result or with an error.
FairSpecInitEvm ==
    /\ Init /\ [][NextFairCollector]_vars
    /\ WF_vars(Tick)
    /\ WF_vars(\E i \in DOMAIN brc20_tasks : InitEvmStateOk(i) \/ InitEvmStateErr(i))

\* The calls of the BurnRequestStore, in any order.
SpecBurnRequests == Init /\ [][NextBurnRequests]_vars

\* The operations of the canisters, interleaved at their awaits.
SpecBorrow == Init /\ [][NextBorrow]_vars

SpecRune == Init /\ [][NextRuneBridge]_vars

SpecRuneSequential == Init /\ [][NextRuneSequential]_vars

SpecBtc == Init /\ [][NextBtc]_vars

SpecRuneWithdraw == Init /\ [][NextRuneWithdraw]_vars

\* A function of the BRC-20 bridge's state is called once, with any of
\* its calls.
InitBrc20State ==
    /\ Canisters
    /\ Minter
    /\ fn_call \in ConfigureCalls \cup SetTokenSymbolCalls
    /\ fn_ret = None

SpecBrc20State == InitBrc20State /\ [][NextBrc20State]_vars

\* Any principals call admin_configure_bft_bridge, in any order, and the
\* canister may be upgraded between the calls.
NextAdmin ==
    \/ \E caller \in Principals, config \in BftBridgeConfigs :
          AdminConfigureBftBridge(caller, config)
    \/ PostUpgrade

SpecAdmin == Init /\ [][NextAdmin]_vars

\* An order is encoded and the encoding decoded, or a decoder is given a
\* byte string.
InitCodec ==
    /\ Canisters
    /\ Minter
    /\ fn_call \in EncodeCalls \cup DecodeCalls
    /\ fn_ret = None

SpecCodec == InitCodec /\ [][NextCodec]_vars

\* A gate of deposit is called once, with any of its calls.
InitGates ==
    /\ Canisters
    /\ Minter
    /\ fn_call \in ConfirmationCalls \cup AmountCalls
    /\ fn_ret = None

SpecGates == InitGates /\ [][NextGates]_vars

\* The calls on a MintOrders store, in any order, from the empty store.
SpecMintOrders == Init /\ [][NextMintOrders]_vars

\* The minter canister after some calls of next_nonce since the reset:
\* they have returned every nonce below the counter.
InitNonces ==
    /\ Canisters
    /\ orders = [mint_orders_map |-> {}]
    /\ NONCES_COUNTER \in StartCounters
    /\ nonces = [below |-> NONCES_COUNTER, since |-> <<>>]
    /\ fn_call = [fn |-> "none"]
    /\ fn_ret = None

SpecNonces == InitNonces /\ [][NextNonces]_vars

\* A fee-rate estimator is called once, with any of its calls.
InitFeeRate ==
    /\ Canisters
    /\ Minter
    /\ fn_call \in FeeRateCalls
    /\ fn_ret = None

SpecFeeRate == InitFeeRate /\ [][NextFeeRate]_vars

---------------------------------------------------------------------------
(* Claims about the collector.                                             *)

NextBlock == brc20_state.evm_params.v.next_block

\* C1 (as claimed): EvmParams.next_block never decreases, whatever the
\* collector runs receive and however they interleave.
C1_CheckpointMonotone ==
    [][(brc20_state.evm_params.some /\ brc20_state'.evm_params.some)
          => brc20_state'.evm_params.v.next_block >= NextBlock]_vars

LogTasks == {i \in DOMAIN brc20_tasks : brc20_tasks[i].kind \in {"InscribeBrc20", "RemoveMintOrder"}}

\* C2 (as claimed): the tasks a collector round appends come only from
\* logs that were returned with a block number.
C2_TasksOnlyFromFinalizedLogs ==
    \A i \in LogTasks : brc20_tasks[i].log.block_number.some

\* C3 (as claimed): each Burnt log is converted into at most one
\* InscribeBrc20 task.
C3_NoReplayedBurn ==
    \A l \in LogIds : journal.created[l] # "many"

IsBurnt(l) == l <= Len(evm_logs) /\ evm_logs[l] \in {"Burnt", "BurntBadRecipient"}

ReceivedFinalized(l) == journal.created[l] # "none" /\ l <= evm_safe

---------------------------------------------------------------------------
(* Claims about the rune bridge and the BTC bridge.                        *)

NonceKey(o) == <<o.order.sender, o.order.src_token, o.order.nonce>>

C6_BtcNonceUniqueness ==
    \A i, j \in DOMAIN btc_journal.stored :
        (/\ btc_journal.stored[i].utxo # btc_journal.stored[j].utxo
         /\ btc_journal.stored[i].order.sender = btc_journal.stored[j].order.sender)
        => btc_journal.stored[i].order.nonce # btc_journal.stored[j].order.nonce

\* C7 (as claimed): no outpoint is an input of two transactions that the
\* rune bridge has broadcast.
C7_UtxoNonReuse ==
    \A o \in Outpoints : rune_journal.sent[o] # "many"

\* C8 (as claimed): the first mint order a deposit call signs is backed by
\* UTXOs that back no mint order signed before it, that is, no outpoint
\* backs the mint orders of two deposit calls.
C8_NoUtxoBacksTwoDeposits ==
    \A i, j \in DOMAIN rune_journal.orders :
        (i < j /\ rune_journal.orders[j].first)
        => rune_journal.orders[i].utxos \cap rune_journal.orders[j].utxos = {}

\* C9 (as claimed): no withdraw call panics; with inputs of heterogeneous
\* derivation paths it returns an error value.
C9_HeterogeneousPathsReturnError ==
    \A c \in Callers : rune_calls[c].outcome # "Panicked"

\* C10 (as claimed): in the rune bridge and in the BTC bridge, a step in
\* which a mint transaction is submitted successfully increments the
\* cached EVM nonce by exactly one, and any other step of send_mint_order
\* leaves the cached EVM parameters as they are.
C10_SentMintIncrementsNonce ==
    [][/\ IF Len(rune_journal'.minted) > Len(rune_journal.minted)
          THEN /\ rune_state.evm_params.some /\ rune_state'.evm_params.some
               /\ rune_state'.evm_params.v.nonce = rune_state.evm_params.v.nonce + 1
          ELSE rune_state.evm_params.some => rune_state'.evm_params = rune_state.evm_params
       /\ IF Len(btc_journal'.minted) > Len(btc_journal.minted)
          THEN /\ btc_state.evm_params.some /\ btc_state'.evm_params.some
               /\ btc_state'.evm_params.v.nonce = btc_state.evm_params.v.nonce + 1
          ELSE btc_state.evm_params.some => btc_state'.evm_params = btc_state.evm_params
      ]_vars

\* C13: the EVM parameters are persisted: after a restart of the BRC-20
\* bridge (post_upgrade) EvmParams, with the checkpoint next_block, has
\* the value it had before the restart.
C13_EvmParamsSurviveUpgrade ==
    [][PostUpgrade => brc20_state'.evm_params = brc20_state.evm_params]_vars

\* C15: whatever the calls and the callers, admin_configure_bft_bridge
\* changes bft_config only when the caller is the configured admin, who
\* gets the config set; a call by any other principal is rejected with
\* 'access denied' and leaves bft_config as it was.
C15_OnlyAdminConfiguresBft ==
    [][(fn_call'.fn = "admin_configure_bft_bridge" /\ <<fn_call, fn_ret>>' # <<fn_call, fn_ret>>)
       => IF fn_call'.caller = brc20_state.config.admin
          THEN /\ fn_ret' = Some("Ok")
               /\ brc20_state'.bft_config = fn_call'.config
          ELSE /\ fn_ret' = Some("access denied")
               /\ brc20_state'.bft_config = brc20_state.bft_config]_vars

\* A principal other than the admin has been rejected after the admin set
\* a config.
C15_Witness ==
    /\ fn_call.fn = "admin_configure_bft_bridge"
    /\ fn_call.caller # brc20_state.config.admin
    /\ fn_ret = Some("access denied")
    /\ brc20_state.bft_config # BftBridgeConfig_default
    /\ brc20_state.bft_config # fn_call.config

\* C19: for a UTXO for which the ckBTC minter reports minted_amount m,
\* mint_erc20 signs, transfers and reports exactly m - ck_btc_ledger_fee
\* (99_998_000 minted of a deposit of 100_000_000 gives Minted{amount:
\* 99_997_990}); when m is below the ledger fee it returns ValueTooSmall
\* and nothing is signed, transferred or stored.
C19_FeeMath ==
    LET moved == {btc_journal.signed[i] : i \in DOMAIN btc_journal.signed}
                 \cup {btc_journal.transferred[i] : i \in DOMAIN btc_journal.transferred}
    IN
    /\ \A e \in moved :
          /\ e.status.minted_amount >= ck_btc_ledger_fee
          /\ e.amount = e.status.minted_amount - ck_btc_ledger_fee
    /\ \A i \in DOMAIN btc_journal.stored :
          \E e \in moved : /\ e.status.utxo = btc_journal.stored[i].utxo
                           /\ e.amount = btc_journal.stored[i].order.amount
    /\ \A c \in Callers : \A i \in DOMAIN btc_calls[c].results :
          LET r == btc_calls[c].results[i] IN
          r.of.status = "Minted"
          => IF r.of.minted_amount < ck_btc_ledger_fee
             THEN /\ r.result.status = "ValueTooSmall"
                  /\ \A e \in moved : e.status.utxo # r.of.utxo
                  /\ \A k \in DOMAIN btc_journal.stored :
                        btc_journal.stored[k].utxo # r.of.utxo
             ELSE /\ r.result.status # "ValueTooSmall"
                  /\ r.result.status = "Minted"
                     => /\ r.result.amount = r.of.minted_amount - ck_btc_ledger_fee
                        /\ r.of.minted_amount = 99998000 => r.result.amount = 99997990

\* One call has returned ValueTooSmall for a minted amount below the fee
\* and Minted{amount: 99_997_990} for a minted amount of 99_998_000.
C19_Witness ==
    \E c \in Callers : \E i, j \in DOMAIN btc_calls[c].results :
        LET r == btc_calls[c].results IN
        /\ r[i].of.status = "Minted"
        /\ r[i].of.minted_amount < ck_btc_ledger_fee
        /\ r[i].result.status = "ValueTooSmall"
        /\ r[j].of.status = "Minted"
        /\ r[j].of.minted_amount = 99998000
        /\ r[j].result = [status |-> "Minted", amount |-> 99997990]
        /\ Len(btc_journal.stored) = 1

\* C20: when the ckBTC minter reports no new UTXOs, btc_to_erc20 returns
\* the single result Err(NothingToMint) and schedules nothing if there
\* are no current confirmations; with current confirmations c it returns
\* the single result Ok(Scheduled{c, required, pending_utxos}) and appends
\* exactly one MintErc20 task for the EVM address; in both cases no mint
\* order is created.
C20_NoNewUtxos ==
    [][\A c \in Callers : \A err \in UpdateBalanceErrors :
          (err.kind = "NoNewUtxos" /\ UpdateBalanceErr(c, err))
          => /\ btc_calls'[c].pc = "done"
             /\ IF err.current_confirmations.some
                THEN /\ btc_calls'[c].results =
                          <<[of |-> [status |-> "none"], result |->
                              [status |-> "Scheduled",
                               current_confirmations |-> err.current_confirmations.v,
                               required_confirmations |-> err.required_confirmations,
                               pending_utxos |-> err.pending_utxos]]>>
                     /\ btc_state'.tasks =
                          Append(btc_state.tasks, [MintErc20 |-> btc_calls[c].addr])
                ELSE /\ btc_calls'[c].results =
                          <<[of |-> [status |-> "none"], result |->
                              [status |-> "NothingToMint"]]>>
                     /\ btc_state'.tasks = btc_state.tasks
             /\ btc_state'.mint_orders = btc_state.mint_orders
             /\ btc_journal' = btc_journal]_vars

\* A call has returned Scheduled and its MintErc20 task is the last of the
\* scheduler, after a call that returned NothingToMint scheduled none.
C20_Witness ==
    \E c \in Callers :
        /\ btc_calls[c].pc = "done"
        /\ Len(btc_calls[c].results) = 1
        /\ btc_calls[c].results[1].result.status = "Scheduled"
        /\ btc_calls[c].results[1].result.current_confirmations = 7
        /\ Len(btc_state.tasks) = 1
        /\ btc_journal.stored = <<>>

---------------------------------------------------------------------------
(* Claims about functions called on their own.                             *)

\* C11: for any tip height and any non-empty set of UTXOs, the
\* confirmation gate computes tip_height - utxo.height + 1 for each UTXO
\* and returns Pending{min_confirmations, current} with current the
\* minimum over the UTXOs exactly when that minimum is below
\* min_confirmations, and Ok otherwise; a UTXO above the tip is no
\* arithmetic failure.
C11_ConfirmationGate ==
    (/\ fn_call.fn = "validate_utxo_confirmations"
     /\ fn_call.utxo_info.utxos # {}
     /\ fn_ret.some)
    => LET utxo_info == fn_call.utxo_info
           minimum == MinOf({utxo_info.tip_height - utxo.height + 1 :
                                utxo \in utxo_info.utxos})
       IN IF minimum < fn_call.min_confirmations
          THEN /\ fn_ret.v.kind = "Pending"
               /\ fn_ret.v.min_confirmations = u32(fn_call.min_confirmations)
               /\ minimum >= 0 => fn_ret.v.current_confirmations = u32(minimum)
          ELSE fn_ret.v = [kind |-> "Ok"]

\* C12: the amount gate rejects with NotEnoughBtc{received, minimum}
\* exactly when the satoshi values of the selected UTXOs sum to less than
\* deposit_fee + ledger_fee.
C12_AmountGate ==
    (/\ fn_call.fn = "validate_utxo_btc_amount"
     /\ fn_call.utxo_info.utxos # {}
     /\ fn_ret.some)
    => LET received == SumValues(fn_call.utxo_info.utxos)
       IN IF received < fn_call.deposit_fee + fn_call.ledger_fee
          THEN fn_ret.v.kind = "NotEnoughBtc" /\ fn_ret.v.received = received
          ELSE fn_ret.v = [kind |-> "Ok"]

\* C14: State::configure accepts a config if and only if indexer_url is
\* non-empty and begins with 'https://'; for any other URL it panics
\* before the signer or the stored config is changed.
C14_ConfigureValidatesUrl ==
    (fn_call.fn = "configure" /\ fn_ret.some)
    => LET url == fn_call.config.indexer_url
           valid == url # <<>> /\ starts_with(url, Https \o <<":", "/", "/">>)
       IN /\ fn_ret.v.panic <=> ~valid
          /\ fn_ret.v.panic => fn_ret.v.state = fn_call.state
          /\ ~fn_ret.v.panic => /\ fn_ret.v.state.config = fn_call.config
                                /\ fn_ret.v.state.signer =
                                      make_signer(fn_call.config.signing_strategy)

\* C16: after set_token_symbol(s) returns Ok for an input of at most 16
\* bytes, token_symbol is the bytes of s followed by zero bytes up to
\* length 16, whatever symbol was set before; a longer input is rejected
\* with SetTokenSymbol and leaves token_symbol as it was.
C16_TokenSymbolZeroPadded ==
    (fn_call.fn = "set_token_symbol" /\ fn_ret.some)
    => LET s == fn_call.brc20_tick
           after == fn_ret.v.state.bft_config.token_symbol
       IN IF Len(s) <= 16
          THEN /\ fn_ret.v.result = "Ok"
               /\ after = [i \in 1..16 |-> IF i <= Len(s) THEN s[i] ELSE 0]
          ELSE /\ fn_ret.v.result = "SetTokenSymbol"
               /\ after = fn_call.state.bft_config.token_symbol

\* decoding what encode_and_sign returned for an order gives the order
RoundTrip ==
    (fn_call.fn \in {"decode_data", "decode_signed"} /\ fn_call.order.some /\ fn_ret.some)
    => fn_ret.v.kind = "Some" /\ fn_ret.v.order = fn_call.order.v

\* C17: for every MintOrder o (any token_uri) and any signer that
\* succeeds, decode_data and decode_signed of encode_and_sign(o) return o,
\* and the length of the encoding is SIGNED_ENCODED_DATA_SIZE.
C17_RoundTripFixedLength ==
    /\ RoundTrip
    /\ (fn_call.fn = "encode_and_sign" /\ fn_ret.some /\ fn_call.signature.some)
       => /\ fn_ret.v.kind = "Ok"
          /\ Len(fn_ret.v.bytes) = SIGNED_ENCODED_DATA_SIZE

\* C17 as amended: the length of the encoding is SIGNED_ENCODED_DATA_SIZE
\* plus the length in bytes of token_uri.
C17_RoundTrip ==
    /\ RoundTrip
    /\ (fn_call.fn = "encode_and_sign" /\ fn_ret.some /\ fn_call.signature.some)
       => /\ fn_ret.v.kind = "Ok"
          /\ Len(fn_ret.v.bytes) = SIGNED_ENCODED_DATA_SIZE + Len(fn_call.order.token_uri)

\* decode_signed has returned the order of an encoding whose token_uri has
\* two bytes, whose nonce has four different bytes.
C17_Witness ==
    /\ fn_call.fn = "decode_signed"
    /\ fn_call.order.some
    /\ fn_call.order.v.token_uri = <<195, 169>>
    /\ fn_call.order.v.sender_chain_id = u32(U16 + 3)
    /\ Len(fn_call.data) = SIGNED_ENCODED_DATA_SIZE + 2
    /\ fn_ret.some
    /\ fn_ret.v.kind = "Some"

\* C18: decode_data and decode_signed return None for a malformed input
\* and never fail: also for an input of at least the fixed size that is
\* shorter than 188 + its declared token_uri length (+ 65 for
\* decode_signed), or whose token_uri bytes are not valid UTF-8.
C18_DecodersNeverFail ==
    (fn_call.fn \in {"decode_data", "decode_signed"} /\ fn_ret.some)
    => LET data == fn_call.data
           fixed == IF fn_call.fn = "decode_data" THEN ENCODED_DATA_SIZE
                    ELSE SIGNED_ENCODED_DATA_SIZE
           declared == from_be_bytes(SubSeq(data, 185, 188))
           malformed ==
               \/ Len(data) < fixed
               \/ declared.hi > 0
               \/ Len(data) < fixed + declared.lo
               \/ ~is_utf8(SubSeq(data, 189, 188 + declared.lo))
       IN /\ fn_ret.v.kind # "panic"
          /\ malformed => fn_ret.v.kind = "None"

---------------------------------------------------------------------------
(* Claims about the MintOrders store.                                      *)

\* The keys of the store, and the order get finds under each.
StoreKeys == Id256s \X Id256s \X OperationIds
StoredAt(self, key) == get(self, key[1], key[2], key[3])

\* C21: insert returns None when no order is stored under the key and the
\* replaced order when one is; after an insert, get with the same key
\* returns the order just inserted.
C21_InsertReturnsReplaced ==
    [][fn_call'.fn = "insert" =>
       \A key \in StoreKeys : \A order \in SignedMintOrders :
          Insert(key[1], key[2], key[3], order)
          => /\ fn_ret' = Some(StoredAt(orders, key))
             /\ StoredAt(orders', key) = Some(order)]_vars

\* An insert has replaced an order.
C21_Witness ==
    /\ fn_call.fn = "insert"
    /\ fn_ret.v.some

\* C22: get_all(sender, src_token) returns exactly the orders stored under
\* that pair, as (operation_id, order) pairs in ascending operation_id
\* order, and none stored under another sender or another src_token.
C22_GetAllOfThePair ==
    [][fn_call'.fn = "get_all" =>
       \A sender \in Id256s, src_token \in Id256s :
          GetAll(sender, src_token)
          => LET all == fn_ret'.v
                 under == {id \in OperationIds : get(orders, sender, src_token, id).some}
             IN
             /\ {all[i] : i \in DOMAIN all} =
                   {<<id, get(orders, sender, src_token, id).v>> : id \in under}
             /\ Len(all) = Cardinality(under)
             /\ \A i, j \in DOMAIN all : i < j => u32_lt(all[i][1], all[j][1])]_vars

\* get_all has returned one order of the two that are stored.
C22_Witness ==
    /\ fn_call.fn = "get_all"
    /\ Len(fn_ret.v) = 1
    /\ Cardinality(orders.mint_orders_map) = 2

\* C23: remove returns the stored order when one exists and None
\* otherwise; afterwards get with that key returns None, and every order
\* stored under any other key is unchanged.
C23_RemoveOnlyTheKey ==
    [][fn_call'.fn = "remove" =>
       \A key \in StoreKeys :
          Remove(key[1], key[2], key[3])
          => /\ fn_ret' = Some(StoredAt(orders, key))
             /\ StoredAt(orders', key) = None
             /\ \A other \in StoreKeys \ {key} :
                   StoredAt(orders', other) = StoredAt(orders, other)]_vars

\* remove has returned an order, and another order is still stored.
C23_Witness ==
    /\ fn_call.fn = "remove"
    /\ fn_ret.v.some
    /\ orders.mint_orders_map # {}

---------------------------------------------------------------------------
(* Claims about the nonce counter.                                         *)

\* The nonces returned since the reset before the i-th of the calls made
\* from the counter's initial value: those below that value, and those of
\* the calls before.
ReturnedBefore(i, nonce) ==
    \/ u32_lt(nonce, nonces.below)
    \/ \E j \in 1..(i - 1) : nonces.since[j] = nonce

---------------------------------------------------------------------------
(* Claims about the fee estimation.                                        *)

\* C25: on an empty percentile response every fee-rate estimator uses its
\* regtest default only when the network is Regtest, and on Mainnet or
\* Testnet yields an error instead of a default or zero fee rate.
C25_EmptyPercentiles ==
    (fn_ret.some /\ fn_call.response = Some(<<>>)) =>
        IF fn_call.network = "Regtest"
        THEN fn_ret.v.kind = "Ok" /\ fn_ret.v.fee_rate > 0
        ELSE fn_ret.v.kind = "Err"

---------------------------------------------------------------------------
(* Claims about the collector's round and its tasks.                       *)

\* The positions of the logs of a reply that have a block number.
Numbered(logs) == {k \in DOMAIN logs : logs[k].block_number.some}

\* C26: when the logs returned to the collector contain a log with a block
\* number, next_block is set to the block number of the last such log of
\* the list plus one, also when a log without a block number precedes it;
\* when no log has a block number, next_block is unchanged.
C26_NextBlockAfterLastNumbered ==
    [][\A i \in DOMAIN brc20_tasks :
          brc20_tasks[i].status = "AwaitLogs" =>
          \A logs \in AnyReplies(brc20_tasks[i].params.v.next_block) :
             (logs # <<>> /\ CollectEvmEvents(i, logs))
             => IF Numbered(logs) = {}
                THEN brc20_state'.evm_params = brc20_state.evm_params
                ELSE LET last == CHOOSE k \in Numbered(logs) :
                                     \A j \in Numbered(logs) : j <= k
                     IN brc20_state'.evm_params.v.next_block =
                            logs[last].block_number.v + 1]_vars

---------------------------------------------------------------------------
(* Claims about the stored mint orders of the bridges.                     *)

\* C27: in the rune deposit, the (sender, nonce) key under which a signed
\* mint order is pushed to the store is the sender and the nonce encoded in
\* that order, so that the Minted event of the order names its key.
C27_StoreKeyIsOrderKey ==
    \A e \in rune_state.mint_orders :
        /\ e.sender = e.order.sender
        /\ e.nonce = e.order.nonce

\* The key a Minted event names, when its sender_id is an Id256.
MintedKey(minted_event) == <<minted_event.sender_id, SRC_TOKEN, minted_event.nonce>>

\* C28: RemoveMintOrder(minted) with a sender_id that is an Id256 leaves no
\* stored order at (sender, nonce) and every other stored order unchanged,
\* and succeeds also when no such order was stored; with a sender_id that
\* is no Id256 it returns TaskExecutionFailed and leaves the store
\* unchanged.
C28_RemoveMintOrder ==
    [][fn_call'.fn = "remove_mint_order" =>
       \A minted_event \in MintedEventDatas :
          RemoveMintOrder(minted_event)
          => IF Len(minted_event.sender_id) = 32
             THEN /\ fn_ret'.v.kind = "Ok"
                  /\ StoredAt(orders', MintedKey(minted_event)) = None
                  /\ \A key \in StoreKeys \ {MintedKey(minted_event)} :
                        StoredAt(orders', key) = StoredAt(orders, key)
             ELSE /\ fn_ret'.v = [kind |-> "Err", error |-> "TaskExecutionFailed"]
                  /\ orders' = orders]_vars

\* A RemoveMintOrder task has succeeded on a store that holds another
\* order of the sender of its event, and none under the key of the event.
C28_Witness ==
    /\ fn_call.fn = "remove_mint_order"
    /\ fn_ret.v.kind = "Ok"
    /\ StoredAt(orders, MintedKey(fn_call.minted_event)) = None
    /\ \E e \in orders.mint_orders_map : e.k1.sender = fn_call.minted_event.sender_id

---------------------------------------------------------------------------
(* Claims about the tasks made from the logs.                              *)

\* The logs of a reply that decode to a Burnt or a Minted event, in the
\* order of the reply.
Decoded(logs) == SelectSeq(logs, LAMBDA l : evm_logs[l.log] # "Other")

\* The tasks a round has appended: those after the tasks that were pending
\* before it, less the collector task that made the round.
Appended(before, after) == SubSeq(after, Len(before), Len(after))

\* C29: task_by_log makes one InscribeBrc20 task carrying the data of a
\* log that decodes to Burnt, one RemoveMintOrder task carrying the data of
\* a log that decodes to Minted, and no task of a log that decodes to
\* neither; the tasks of one round are appended in the order of their logs.
C29_TasksInLogOrder ==
    [][\A i \in DOMAIN brc20_tasks :
          brc20_tasks[i].status = "AwaitLogs" =>
          \A logs \in AnyReplies(brc20_tasks[i].params.v.next_block) :
             CollectEvmEvents(i, logs)
             => LET new == Appended(brc20_tasks, brc20_tasks')
                    decoded == Decoded(logs)
                IN
                /\ Len(new) = Len(decoded)
                /\ \A k \in DOMAIN new :
                      /\ new[k].log = decoded[k]
                      /\ new[k].kind =
                            IF evm_logs[decoded[k].log] = "Minted"
                            THEN "RemoveMintOrder" ELSE "InscribeBrc20"
                      /\ new[k].status = "Waiting"]_vars

\* A round has appended the task of the log of block 2 before the task of
\* the log of block 1, one of a Minted and one of a Burnt event.
C29_Witness ==
    /\ Len(brc20_tasks) = 2
    /\ brc20_tasks[1].log.log = 2
    /\ brc20_tasks[2].log.log = 1
    /\ {brc20_tasks[1].kind, brc20_tasks[2].kind} = {"InscribeBrc20", "RemoveMintOrder"}

\* The tasks of the store that were made from the log l by a Burnt event.
BurnTasks(tasks, l) ==
    {k \in DOMAIN tasks : tasks[k].kind = "InscribeBrc20" /\ tasks[k].log.log = l}

\* In a step, a failure of a task made from a Burnt log leaves it waiting
\* for its next run, and such a task leaves the store only when its
\* execution has returned Ok.
RescheduledUntilSuccess ==
    /\ \A i \in DOMAIN brc20_tasks :
          InscribeBrc20Err(i)
          => /\ i \in DOMAIN brc20_tasks'
             /\ brc20_tasks'[i] = [brc20_tasks[i] EXCEPT !.status = "Waiting"]
    /\ \A l \in LogIds :
          \/ Cardinality(BurnTasks(brc20_tasks', l)) >= Cardinality(BurnTasks(brc20_tasks, l))
          \/ \E i \in BurnTasks(brc20_tasks, l) : InscribeBrc20Ok(i)

\* The retry policy of every task made from a Burnt log is the policy
\* given, and its backoff is the fixed 5 seconds.
BurnTaskOptions(max_retries) ==
    \A i \in DOMAIN brc20_tasks :
       brc20_tasks[i].kind = "InscribeBrc20"
       => /\ brc20_tasks[i].max_retries = max_retries
          /\ brc20_tasks[i].backoff = [policy |-> "Fixed", secs |-> 5]

---------------------------------------------------------------------------
(* Claims about the failures of the tasks.                                 *)

\* The tasks of the store made from a Burnt event whose recipient_id is
\* not valid UTF-8.
BadRecipientTasks(tasks) ==
    {k \in DOMAIN tasks : tasks[k].kind = "InscribeBrc20" /\ ~recipient_is_utf8(tasks[k])}

\* C31: an InscribeBrc20 task whose burn event carries a recipient_id that
\* is not valid UTF-8 fails fast without starting a withdrawal step, is
\* dropped and is not retried: no run of the scheduler starts
\* erc20_to_brc20 for it, and after the run that executes it it is no
\* longer among the pending tasks.
C31_BadRecipientDropped ==
    [][/\ \A k \in BadRecipientTasks(brc20_tasks') :
             brc20_tasks'[k].status # "AwaitInscribe"
       /\ Tick => BadRecipientTasks(brc20_tasks') = {}]_vars

\* C32: a scheduled MintErc20 task whose brc20_to_erc20 fails is reported
\* to the scheduler as failed and handled within its retry policy (with
\* retries left it waits for its next run); it is not recorded as
\* Completed.
C32_MintFailureRetried ==
    [][\A i \in DOMAIN brc20_tasks :
          Brc20MintErc20Err(i)
          => brc20_tasks' = Pending(Replace(brc20_tasks, i, OnFailure(brc20_tasks[i])))]_vars

\* The InitEvmState tasks of the store.
InitTasks(tasks) == {k \in DOMAIN tasks : tasks[k].kind = "InitEvmState"}

\* In a step: there is at most one InitEvmState task, with the exponential
\* backoff of 2 s and multiplier 2 and 5 retries, of which it has used at
\* most 5, and EvmParams is absent as long as it is pending; when its
\* queries are answered it completes and EvmParams is set; when they fail
\* EvmParams stays absent, and the task is retried unless it has used its
\* 5 retries, and then it fails for good.
InitEvmStateSteps ==
    /\ Cardinality(InitTasks(brc20_tasks')) <= 1
    /\ \A k \in InitTasks(brc20_tasks') :
          /\ brc20_tasks'[k].max_retries = Some(5)
          /\ brc20_tasks'[k].backoff = [policy |-> "Exponential", secs |-> 2, multiplier |-> 2]
          /\ brc20_tasks'[k].failures <= 5
          /\ brc20_state'.evm_params = None
    /\ \A i \in DOMAIN brc20_tasks :
          InitEvmStateOk(i)
          => /\ InitTasks(brc20_tasks') = {}
             /\ brc20_state'.evm_params.some
             /\ DOMAIN brc20_state'.evm_params.v = {"nonce", "next_block"}
    /\ \A i \in DOMAIN brc20_tasks :
          InitEvmStateErr(i)
          => /\ brc20_state'.evm_params = None
             /\ IF brc20_tasks[i].failures = 5
                THEN InitTasks(brc20_tasks') = {}
                ELSE \E k \in InitTasks(brc20_tasks') :
                        /\ brc20_tasks'[k].status = "Waiting"
                        /\ brc20_tasks'[k].failures = brc20_tasks[i].failures + 1

\* C33: InitEvmState is appended once at init with exponential backoff
\* (2 s base, multiplier 2) and 5 retries: whatever the failures of the EVM
\* queries, it reaches a terminal state after at most 5 retries, Completed
\* with EvmParams set or Failed with EvmParams absent, and EvmParams is
\* never partially written.
C33_InitEvmStateTerminates ==
    /\ [][InitEvmStateSteps]_vars
    /\ <>(InitTasks(brc20_tasks) = {})

\* The InitEvmState task has failed after its last retry: it is no longer
\* pending and EvmParams is absent.
C33_Witness ==
    /\ InitTasks(brc20_tasks) = {}
    /\ brc20_state.evm_params = None

---------------------------------------------------------------------------
(* Claims about the UTXOs of the rune deposits.                            *)

\* The outpoints the ledger has recorded.
Consumed == {v.outpoint : v \in load_all(rune_state.ledger)}

\* C34: the UTXOs the ledger has recorded are filtered out of every later
\* deposit: a deposit goes on with none of them, and a deposit for which
\* the Bitcoin host returns only UTXOs that an earlier deposit recorded
\* returns NotingToDeposit and creates no mint order.
C34_UsedUtxosFiltered ==
    [][\A answer \in HeldUtxosResponses(rune_calls["c1"].addr) :
          DepositUtxos("c1", answer)
          => /\ rune_calls'["c1"].utxos \cap Consumed = {}
             /\ {utxo.outpoint : utxo \in answer.utxos} \subseteq Consumed
                => /\ rune_calls'["c1"].pc = "done"
                   /\ rune_calls'["c1"].outcome = "NotingToDeposit"
                   /\ rune_state' = rune_state
                   /\ NONCE' = NONCE
                   /\ rune_journal' = rune_journal]_vars

\* A deposit has returned NotingToDeposit for a deposit address that holds
\* UTXOs, after a deposit that persisted a mint order and recorded them.
C34_Witness ==
    /\ rune_calls["c1"].outcome = "NotingToDeposit"
    /\ rune_state.mint_orders # {}
    /\ Consumed # {}

---------------------------------------------------------------------------
(* Claims about the borrows of the State.                                  *)

\* C35: no operation (CollectEvmEvents, InitEvmState, the rune deposit,
\* mint_erc20 of the BTC bridge) holds a borrow of the State across an
\* await: whatever the interleaving of the calls and the tasks, the State
\* of every canister is unborrowed while its operations are suspended, and
\* no borrow panics.
C35_NoBorrowAcrossAwait ==
    /\ ~borrow_panic
    /\ \A f \in Callers : futures[f].held = <<>>
    /\ \A canister \in CanisterNames : cells[canister] = 0

\* Two operations of one canister are suspended at their awaits at the
\* same time.
C35_Witness ==
    /\ futures["c1"].op = "collect_evm_events"
    /\ futures["c2"].op = "init_evm_state"
    /\ futures["c2"].pc = 2

---------------------------------------------------------------------------
(* Claims about the layout of the signed NFT mint order.                   *)

\* The u32 of the four bytes of data from `from`, the most significant
\* first.
BigEndianAt(data, from) ==
    [hi |-> data[from + 1] * 256 + data[from + 2],
     lo |-> data[from + 3] * 256 + data[from + 4]]

\* C36: encode_and_sign places sender at bytes 0..32, src_token 32..64,
\* recipient 64..84, dst_token 84..104, nonce 104..108, sender_chain_id
\* 108..112, recipient_chain_id 112..116, name 116..148, symbol 148..164,
\* approve_spender 164..184, the byte length of token_uri 184..188 and the
\* bytes of token_uri from 188, the integers big-endian; the last 65 bytes
\* are the signature (r, s, v) that the signer gave for the hash of exactly
\* the bytes before them.
C36_WireLayout ==
    (fn_call.fn = "encode_and_sign" /\ fn_ret.some /\ fn_ret.v.kind = "Ok")
    => LET order == fn_call.order
           buf == fn_ret.v.bytes
           signature == fn_call.signature.v
           data_size == Len(order.token_uri)
       IN /\ Len(buf) = 188 + data_size + 65
          /\ SubSeq(buf, 1, 32) = order.sender
          /\ SubSeq(buf, 33, 64) = order.src_token
          /\ SubSeq(buf, 65, 84) = order.recipient
          /\ SubSeq(buf, 85, 104) = order.dst_token
          /\ BigEndianAt(buf, 104) = order.nonce
          /\ BigEndianAt(buf, 108) = order.sender_chain_id
          /\ BigEndianAt(buf, 112) = order.recipient_chain_id
          /\ SubSeq(buf, 117, 148) = order.name
          /\ SubSeq(buf, 149, 164) = order.symbol
          /\ SubSeq(buf, 165, 184) = order.approve_spender
          /\ BigEndianAt(buf, 184) = u32(data_size)
          /\ SubSeq(buf, 189, 188 + data_size) = order.token_uri
          /\ SubSeq(buf, 189 + data_size, 220 + data_size) = signature.r
          /\ SubSeq(buf, 221 + data_size, 252 + data_size) = signature.s
          /\ buf[253 + data_size] = signature.v
          /\ fn_ret.v.digest = keccak256(SubSeq(buf, 1, Len(buf) - 65))

\* An order with a token_uri of three bytes, a nonce and a chain id of
\* more than one byte has been encoded and signed.
C36_Witness ==
    /\ fn_call.fn = "encode_and_sign"
    /\ fn_call.order.token_uri = <<97, 98, 99>>
    /\ fn_call.order.nonce = u32(258)
    /\ fn_call.order.sender_chain_id = u32(U16 + 3)
    /\ fn_ret.some
    /\ fn_ret.v.kind = "Ok"

---------------------------------------------------------------------------
(* Claims about the BurnRequestStore.                                      *)

\* The requests other than request_id are what they were.
OthersKept(request_id) ==
    \A other \in BurnRequestIds \ {request_id} :
        burn_requests'[other] = burn_requests[other]

\* C37: insert stores a request with is_transferred = false;
\* set_transferred(id) on a stored request sets is_transferred to true,
\* keeps its address and reveal_txid and changes no other request;
\* set_transferred on an id that is not stored leaves the store unchanged;
\* remove deletes only the given id.
C37_BurnRequestStore ==
    [][\A request_id \in BurnRequestIds :
        /\ \A address \in BurnAddresses, reveal_txid \in RevealTxIds :
             InsertBurnRequest(request_id, address, reveal_txid)
             => burn_requests'[request_id] =
                    Some([address |-> address, reveal_txid |-> reveal_txid,
                          is_transferred |-> FALSE])
        /\ SetTransferred(request_id)
           => IF burn_requests[request_id].some
              THEN /\ burn_requests'[request_id].some
                   /\ burn_requests'[request_id].v.is_transferred
                   /\ burn_requests'[request_id].v.address = burn_requests[request_id].v.address
                   /\ burn_requests'[request_id].v.reveal_txid
                        = burn_requests[request_id].v.reveal_txid
                   /\ OthersKept(request_id)
              ELSE burn_requests' = burn_requests
        /\ RemoveBurnRequest(request_id)
           => /\ ~burn_requests'[request_id].some
              /\ OthersKept(request_id)]_vars

\* Request 1 has been marked transferred, request 2 is stored and is not,
\* and the last call was set_transferred(1).
C37_Witness ==
    /\ fn_call = [fn |-> "BurnRequestStore::set_transferred", request_id |-> 1]
    /\ burn_requests[1].some
    /\ burn_requests[1].v.is_transferred
    /\ burn_requests[2].some
    /\ ~burn_requests[2].v.is_transferred

---------------------------------------------------------------------------
(* Claims about the cached EVM nonce of the BRC-20 bridge.                 *)

\* C38: a CollectEvmEvents run changes only next_block of EvmParams: an
\* update of the cached EVM nonce made by another operation while the
\* collector is suspended in collect_logs is kept by the collector's write,
\* and the cached EVM nonce never decreases.
C38_CollectorKeepsNonce ==
    [][(brc20_state.evm_params.some /\ brc20_state'.evm_params.some)
        => /\ brc20_state'.evm_params.v.nonce >= brc20_state.evm_params.v.nonce
           /\ (brc20_state'.evm_params.v.nonce # brc20_state.evm_params.v.nonce
               => Brc20SendMintOrder)]_vars

---------------------------------------------------------------------------
(* Claims about the deposits of the rune bridge that return an error.      *)

\* The mint orders the call has pushed so far, with the UTXOs it recorded:
\* one for each result of the call, the last ones of the journal.
PushedBy(call) ==
    LET n == Len(rune_journal.orders) IN
    {rune_journal.orders[k] : k \in (n - Len(call.results) + 1)..n}

\* C39: a rune deposit that returns Err leaves the mint-orders store and
\* the UTXO ledger as they were before the call: when signing the mint
\* order of a later rune of the deposit fails, no mint order of the call
\* remains in the store and no UTXO of the call remains recorded in the
\* ledger.
C39_ErrRestoresStoreAndLedger ==
    [][DepositErr("c1")
        => \A pushed \in PushedBy(rune_calls["c1"]) :
              /\ \A e \in rune_state'.mint_orders : e.order # pushed.order
              /\ pushed.utxos \cap Consumed' = {}]_vars

---------------------------------------------------------------------------
(* Claims about the tasks of the timer.                                    *)

\* The CollectEvmEvents tasks that wait for their execution, for a retry or
\* for the answer of collect_logs.
PendingCollectors ==
    {i \in DOMAIN brc20_tasks :
        /\ brc20_tasks[i].kind = "CollectEvmEvents"
        /\ brc20_tasks[i].status \notin Terminal}

\* C40: the number of pending CollectEvmEvents tasks stays bounded over any
\* sequence of timer ticks: the ticks that find a CollectEvmEvents task
\* still pending do not add tasks until the task store is full, however
\* many tasks (MaxTasks) it is let to hold.
C40_PendingCollectorsBounded == Cardinality(PendingCollectors) < MaxTasks

====
